---- MODULE Spec2Model ----
(***************************************************************************)
(* A model of the OpenRouter MCP server core: the context windower and the *)
(* model reference parser (pure functions), the rate-limit aware API       *)
(* client, the model catalog cache with its tool handlers, and the         *)
(* conversation store with the chat completion handler.                    *)
(*                                                                         *)
(* Strings whose length or suffix matters (message contents, model ids)    *)
(* are sequences of one-character strings.  Times are milliseconds.        *)
(***************************************************************************)
EXTENDS Integers, Sequences, FiniteSets, TLC

(***************************************************************************)
(* Bounds of the model.                                                    *)
(***************************************************************************)
MaxMsgs == 3
MaxBudget == 4

(***************************************************************************)
(* Generic helpers.                                                        *)
(***************************************************************************)
Null == "null"

SeqsUpTo(S, n) == UNION { [1..k -> S] : k \in 0..n }

RECURSIVE SumSeq(_)
SumSeq(s) == IF s = <<>> THEN 0 ELSE Head(s) + SumSeq(Tail(s))

(***************************************************************************)
(* model-utils.ts: estimateTokenCount.  Math.ceil(text.length / 4).        *)
(***************************************************************************)
estimateTokenCount(text) == (Len(text) + 3) \div 4

(***************************************************************************)
(* chat-completion.ts: truncateMessagesToFit.  FitLoop is the for loop     *)
(* (i from messages.length - 1 down to 0, here Len(messages) down to 1):   *)
(* break when the next message would exceed maxTokens, else unshift it.    *)
(***************************************************************************)
\* A loop that passes over a message that does not fit and goes on.
RECURSIVE FitLoopSkipping(_, _, _, _, _)
FitLoopSkipping(messages, maxTokens, i, truncated, currentTokenCount) ==
  IF i < 1 THEN truncated
  ELSE LET messageTokens == estimateTokenCount(messages[i].content) IN
       IF currentTokenCount + messageTokens > maxTokens
       THEN FitLoopSkipping(messages, maxTokens, i - 1, truncated, currentTokenCount)
       ELSE FitLoopSkipping(messages, maxTokens, i - 1,
                            <<messages[i]>> \o truncated,
                            currentTokenCount + messageTokens)

RECURSIVE FitLoop(_, _, _, _, _)
FitLoop(messages, maxTokens, i, truncated, currentTokenCount) ==
  IF i < 1 THEN truncated
  ELSE LET messageTokens == estimateTokenCount(messages[i].content) IN
       IF currentTokenCount + messageTokens > maxTokens THEN truncated
       ELSE FitLoop(messages, maxTokens, i - 1,
                    <<messages[i]>> \o truncated,
                    currentTokenCount + messageTokens)

\* A variant that pushes the system message without reserving its tokens.
truncateNoReserve(messages, maxTokens) ==
  LET hasSystem == Len(messages) > 0 /\ messages[1].role = "system" IN
  FitLoop(messages, maxTokens, Len(messages),
          IF hasSystem THEN <<messages[1]>> ELSE <<>>, 0)

truncateMessagesToFit(messages, maxTokens) ==
  LET hasSystem == Len(messages) > 0 /\ messages[1].role = "system" IN
  FitLoop(messages, maxTokens, Len(messages),
          IF hasSystem THEN <<messages[1]>> ELSE <<>>,
          IF hasSystem THEN estimateTokenCount(messages[1].content) ELSE 0)

(***************************************************************************)
(* openrouter-api.ts: the API client.                                      *)
(***************************************************************************)
\* Bounds: 429 answers the upstream gives to one call, and calls per caller.
Max429 == 2
MaxCalls == 2

RETRY_DELAYS == <<1000, 2000, 4000>>

DefaultRemaining == 50
DefaultResetSeconds == 60
DefaultTotal == 50

NoHeader == "absent"

\* parseInt on the header strings the modelled upstream sends.
ParseInt(s) ==
  CASE s = "0" -> 0
    [] s = "2" -> 2
    [] s = "5" -> 5
    [] s = "50" -> 50
    [] s = "60" -> 60

\* response.headers[name] || fallback, then parseInt.
HeaderOr(h, fallback) == ParseInt(IF h = NoHeader \/ h = "" THEN fallback ELSE h)

\* The success interceptor: the new RateLimitState read from a response.
RateLimitFromHeaders(r, t) ==
  [remaining |-> HeaderOr(r.hRemaining, "50"),
   reset     |-> t + HeaderOr(r.hReset, "60") * 1000,
   total     |-> HeaderOr(r.hLimit, "50")]

\* The check at the head of fetchModels and fetchModelEndpoints.
MustWait(rl, t) == rl.remaining <= 0 /\ t < rl.reset

\* model.split('/', 2): the pieces between slashes, at most the first two.
RECURSIVE SplitSlash(_, _, _)
SplitSlash(s, cur, acc) ==
  IF s = <<>> THEN Append(acc, cur)
  ELSE IF Head(s) = "/" THEN SplitSlash(Tail(s), <<>>, Append(acc, cur))
  ELSE SplitSlash(Tail(s), Append(cur, Head(s)), acc)

SplitLimit2(s) ==
  LET parts == SplitSlash(s, <<>>, <<>>) IN
  IF Len(parts) > 2 THEN SubSeq(parts, 1, 2) ELSE parts

\* !author || !slug is false: both pieces exist and are non-empty.
ValidEndpointModel(model) ==
  LET parts == SplitLimit2(model) IN
  Len(parts) = 2 /\ parts[1] # <<>> /\ parts[2] # <<>>

Methods == {"fetchModels", "chatCompletion", "textCompletion", "fetchModelEndpoints"}

LoopMethods == {"fetchModels", "fetchModelEndpoints"}

\* A loop that gives up one attempt early.
IsLastAttemptShort(i) == i = Len(RETRY_DELAYS) - 1

\* The retry loop runs for i = 0 .. RETRY_DELAYS.length.
IsLastAttempt(i) == i = Len(RETRY_DELAYS)

(***************************************************************************)
(* model-utils.ts: parseModel.  A trailing ":floor" or ":nitro" (tried in  *)
(* that order) is split off; suffix Unset stands for the absent field.     *)
(***************************************************************************)
Unset == "unset"

SuffixChars(suffix) ==
  IF suffix = "floor" THEN <<"f", "l", "o", "o", "r">>
  ELSE <<"n", "i", "t", "r", "o">>

EndsWith(s, pattern) ==
  Len(s) >= Len(pattern) /\ SubSeq(s, Len(s) - Len(pattern) + 1, Len(s)) = pattern

DropLast(s, n) == SubSeq(s, 1, Len(s) - n)

\* A parser that knows the suffix floor only.
parseModelFloorOnly(modelString) ==
  LET floorPattern == <<":">> \o SuffixChars("floor")
  IN IF EndsWith(modelString, floorPattern)
     THEN [baseModel |-> DropLast(modelString, Len(floorPattern)),
           suffix |-> "floor", fullModel |-> modelString]
     ELSE [baseModel |-> modelString, suffix |-> Unset, fullModel |-> modelString]

parseModel(modelString) ==
  LET floorPattern == <<":">> \o SuffixChars("floor")
      nitroPattern == <<":">> \o SuffixChars("nitro")
  IN IF EndsWith(modelString, floorPattern)
     THEN [baseModel |-> DropLast(modelString, Len(floorPattern)),
           suffix |-> "floor", fullModel |-> modelString]
     ELSE IF EndsWith(modelString, nitroPattern)
     THEN [baseModel |-> DropLast(modelString, Len(nitroPattern)),
           suffix |-> "nitro", fullModel |-> modelString]
     ELSE [baseModel |-> modelString, suffix |-> Unset, fullModel |-> modelString]

\* chat-completion.ts: the model sent upstream,
\* parsedModel.suffix ? `${model}:${parsedModel.suffix}` : model.
ModelForAPI(parsedModel) ==
  IF parsedModel.suffix # Unset
  THEN parsedModel.baseModel \o <<":">> \o SuffixChars(parsedModel.suffix)
  ELSE parsedModel.baseModel

(***************************************************************************)
(* index.ts: class ModelCache.  cachedModels is <<>> (null) or <<s>> with *)
(* s = [data, timestamp]; None and Some are used for every optional value. *)
(***************************************************************************)
None == <<>>
Some(x) == <<x>>

cacheExpiry == 3600000

\* A validity test that excludes the boundary.
validateCacheStrict(cachedModels, t) ==
  /\ cachedModels # None
  /\ t - cachedModels[1].timestamp < cacheExpiry

validateCache(cachedModels, t) ==
  /\ cachedModels # None
  /\ t - cachedModels[1].timestamp <= cacheExpiry

\* A set that keeps the first entry of the listing only.
setCachedModelsFirstOnly(models) ==
  Some([models EXCEPT !.data = IF @ = <<>> THEN <<>> ELSE <<Head(@)>>])

setCachedModels(models) == Some(models)

getCachedModels(cachedModels, t) ==
  IF validateCache(cachedModels, t) THEN cachedModels ELSE None

clearCache == None

\* models.data.some(m => m.id === model)
validateModel(cachedModels, t, model) ==
  LET models == getCachedModels(cachedModels, t) IN
  IF models = None THEN FALSE
  ELSE \E k \in 1..Len(models[1].data) : models[1].data[k].id = model

\* A lookup in the stored listing that does not ask whether it is valid.
getModelInfoIgnoringExpiry(cachedModels, t, model) ==
  IF cachedModels = None THEN None
  ELSE LET hits == { k \in 1..Len(cachedModels[1].data) :
                       cachedModels[1].data[k].id = model } IN
       IF hits = {} THEN None
       ELSE Some(cachedModels[1].data[CHOOSE k \in hits : \A j \in hits : k <= j])

\* models.data.find(m => m.id === model): the first match, or undefined.
getModelInfo(cachedModels, t, model) ==
  LET models == getCachedModels(cachedModels, t) IN
  IF models = None THEN None
  ELSE LET hits == { k \in 1..Len(models[1].data) : models[1].data[k].id = model } IN
       IF hits = {} THEN None
       ELSE Some(models[1].data[CHOOSE k \in hits : \A j \in hits : k <= j])

(***************************************************************************)
(* conversation-manager.ts: ConversationManager.  conversations is the Map *)
(* as a function from the ids in it to the Conversation objects, order the *)
(* insertion order of its keys.  new Date().toISOString() has millisecond  *)
(* resolution; a timestamp is kept as its millisecond count.               *)
(***************************************************************************)
MapSet(map, id, conv) ==
  [k \in DOMAIN map \cup {id} |-> IF k = id THEN conv ELSE map[k]]

MapDelete(map, id) == [k \in DOMAIN map \ {id} |-> map[k]]

\* A create that ignores the initial messages.
createConversationEmpty(map, id, initialMessages, t) ==
  MapSet(map, id, [id |-> id, history |-> <<>>,
                   createdAt |-> t, lastUpdatedAt |-> t])

\* A create that takes createdAt a millisecond after lastUpdatedAt.
createConversationStampedAhead(map, id, initialMessages, t) ==
  MapSet(map, id, [id |-> id, history |-> initialMessages,
                   createdAt |-> t + 1, lastUpdatedAt |-> t])

createConversation(map, id, initialMessages, t) ==
  MapSet(map, id, [id |-> id, history |-> initialMessages,
                   createdAt |-> t, lastUpdatedAt |-> t])

\* An append that leaves lastUpdatedAt as it was.
addMessageKeepStamp(map, id, message, t) ==
  IF id \in DOMAIN map
  THEN MapSet(map, id, [map[id] EXCEPT !.history = Append(@, message)])
  ELSE map

\* An append that puts the new message in front.
addMessagePrepend(map, id, message, t) ==
  IF id \in DOMAIN map
  THEN MapSet(map, id, [map[id] EXCEPT !.history = <<message>> \o @,
                                       !.lastUpdatedAt = t])
  ELSE map

\* An append that replaces the history by the new message.
addMessageOverwrite(map, id, message, t) ==
  IF id \in DOMAIN map
  THEN MapSet(map, id, [map[id] EXCEPT !.history = <<message>>, !.lastUpdatedAt = t])
  ELSE map

\* An append that makes the conversation when there is none.
addMessageUpsert(map, id, message, t) ==
  IF id \in DOMAIN map
  THEN MapSet(map, id, [map[id] EXCEPT !.history = Append(@, message),
                                       !.lastUpdatedAt = t])
  ELSE MapSet(map, id, [id |-> id, history |-> <<message>>,
                        createdAt |-> t, lastUpdatedAt |-> t])

\* An append that puts the new message before the last one.
addMessageBeforeLast(map, id, message, t) ==
  IF id \in DOMAIN map
  THEN LET hist == map[id].history IN
       MapSet(map, id, [map[id] EXCEPT
                          !.history = IF hist = <<>> THEN <<message>>
                                      ELSE Append(SubSeq(hist, 1, Len(hist) - 1), message)
                                           \o <<hist[Len(hist)]>>,
                          !.lastUpdatedAt = t])
  ELSE map

addMessageToConversation(map, id, message, t) ==
  IF id \in DOMAIN map
  THEN MapSet(map, id, [map[id] EXCEPT !.history = Append(@, message),
                                       !.lastUpdatedAt = t])
  ELSE map

\* messages.forEach(msg => addMessageToConversation(id, {..., timestamp}))
RECURSIVE addMessages(_, _, _, _)
addMessages(map, id, messages, t) ==
  IF messages = <<>> THEN map
  ELSE addMessages(addMessageToConversation(map, id,
                      [role |-> Head(messages).role, content |-> Head(messages).content,
                       timestamp |-> t], t),
                   id, Tail(messages), t)

\* A delete that removes nothing.
deleteNothing(map, id) == map

deleteConversation(map, id) == MapDelete(map, id)

\* The value deleteConversation returns: that of Map.delete.
deleteReturns(map, id) == id \in DOMAIN map

\* getConversation: this.conversations.get(id), absent as None.
getConversation(map, id) == IF id \in DOMAIN map THEN Some(map[id]) ELSE None

Summary(conv) ==
  [id |-> conv.id, createdAt |-> conv.createdAt,
   lastUpdatedAt |-> conv.lastUpdatedAt, messageCount |-> Len(conv.history)]

\* A list in the reverse of the storage order.
listConversationsReversed(map, keys) ==
  [k \in 1..Len(keys) |-> Summary(map[keys[Len(keys) + 1 - k]])]

\* listConversations: Array.from(this.conversations.values()).map(...), the
\* values in the insertion order of their keys.
listConversations(map, keys) ==
  [k \in 1..Len(keys) |-> Summary(map[keys[k]])]

MAX_CONTEXT_TOKENS == 200000

(***************************************************************************)
(* State.                                                                  *)
(*   fitIn, fitMax, fitOut, fitPc : an input of truncateMessagesToFit and  *)
(*        its output.                                                      *)
(*   parseIn, parseOut : a model string given to parseModel, and what is   *)
(*        made of it.                                                      *)
(*   now        : Date.now(), in milliseconds.                             *)
(*   rateLimit  : OpenRouterAPIClient.rateLimit.                           *)
(*   cl         : per caller, the client call it has in progress: the      *)
(*        method, its position (pc), the loop index i, the timer it sleeps *)
(*        on (wakeAt), its result, and a record of what it did (requests   *)
(*        issued, statuses received, sleeps requested).                    *)
(*   ticks      : how often the clock was advanced by Tick.                *)
(*   cachedModels : ModelCache.cachedModels.                               *)
(*   lastSet, invalidated : the argument of the last setCachedModels, and  *)
(*        whether clearCache was called since.                             *)
(*   replaced   : the listing given to the setCachedModels before the last *)
(*        one.                                                             *)
(*   h          : per caller, the tool handler it has in progress.         *)
(*   conversations, order, nextId : the Map of ConversationManager, the    *)
(*        insertion order of its keys, and the next fresh id (randomUUID). *)
(*   appendLog  : per conversation id, the messages of the successful      *)
(*        addMessageToConversation calls, in the order they executed.      *)
(*   callerArray : an array that a user of ConversationManager holds and   *)
(*        passes as initialMessages: its content, and the ids of the       *)
(*        conversations whose history is that array (createConversation    *)
(*        stores the reference, not a copy).                               *)
(***************************************************************************)
VARIABLES fitIn, fitMax, fitOut, fitPc, parseIn, parseOut, now, rateLimit, cl, ticks,
          cachedModels, lastSet, invalidated, replaced, h,
          conversations, order, nextId, appendLog, callerArray

fitVars == <<fitIn, fitMax, fitOut, fitPc, parseIn, parseOut>>

clientVars == <<now, rateLimit, cl>>

cacheVars == <<cachedModels, lastSet, invalidated, replaced>>

convVars == <<conversations, order, nextId, appendLog, callerArray>>

vars == <<fitVars, clientVars, ticks, cacheVars, h, convVars>>

\* What the client's own steps leave alone.
nonClientVars == <<fitVars, ticks, cacheVars, h, convVars>>

Procs == {"p1", "p2"}

Roles == {"system", "user", "assistant"}

\* Contents of 0, 1 and 5 characters: 0, 1 and 2 estimated tokens.
FitContents == { <<>>, <<"a">>, <<"a", "b", "c", "d", "e">> }

FitMessages == [role : Roles, content : FitContents]

IdleCall ==
  [method |-> "none", arg |-> Null, pc |-> "idle", i |-> 0, wakeAt |-> 0,
   result |-> Null, calls |-> 0,
   calledAt |-> 0, rlAtCall |-> Null, firstReqAt |-> -1,
   reqs |-> 0, attempts |-> 0, fails |-> 0, chain |-> 0, n429 |-> 0,
   lastStatus |-> -1,
   backoffs |-> <<>>, lastRetryWait |-> 0]

InitClient ==
  /\ now = 0
  /\ rateLimit = [remaining |-> DefaultRemaining,
                  reset |-> 0 + DefaultResetSeconds * 1000,
                  total |-> DefaultTotal]
  /\ cl = [p \in Procs |-> IdleCall]

\* The array a user of the store starts with: [initialMessage].
InitialMessages == <<[role |-> "user", content |-> <<"H">>, timestamp |-> 0]>>

IdleTool ==
  [tool |-> "none", model |-> <<>>, pc |-> "idle", n |-> 0, result |-> Null,
   absentAtStart |-> FALSE, listCalls |-> 0, fetched |-> None, view |-> None,
   conversationId |-> 0, messages |-> <<>>, sent |-> <<>>, readHistory |-> <<>>,
   topId |-> 0, prompt |-> <<>>]

InitConv ==
  /\ conversations = <<>>
  /\ order = <<>>
  /\ nextId = 1
  /\ appendLog = <<>>
  /\ callerArray = [content |-> InitialMessages, ids |-> {}]

InitCache ==
  /\ cachedModels = None
  /\ lastSet = None
  /\ invalidated = FALSE
  /\ replaced = None
  /\ h = [p \in Procs |-> IdleTool]
  /\ ticks = 0

InitFitIdle ==
  /\ fitIn = <<>>
  /\ fitMax = 0
  /\ fitOut = <<>>
  /\ fitPc = "off"
  /\ parseIn = <<>>
  /\ parseOut = None

FitInit ==
  /\ fitIn \in SeqsUpTo(FitMessages, MaxMsgs)
  /\ fitMax \in 0..MaxBudget
  /\ fitOut = <<>>
  /\ fitPc = "ready"
  /\ parseIn = <<>>
  /\ parseOut = None
  /\ InitClient
  /\ InitCache
  /\ InitConv

Init ==
  /\ InitFitIdle
  /\ InitClient
  /\ InitCache
  /\ InitConv

(***************************************************************************)
(* The context windower applied to the drawn input.                        *)
(***************************************************************************)
Fit ==
  /\ fitPc = "ready"
  /\ fitOut' = truncateMessagesToFit(fitIn, fitMax)
  /\ fitPc' = "done"
  /\ UNCHANGED <<fitIn, fitMax, parseIn, parseOut, clientVars, ticks, cacheVars, h, convVars>>

FitNext == Fit

FitSpec == FitInit /\ [][FitNext]_vars

(***************************************************************************)
(* parseModel applied to a drawn model string, and the model string chat   *)
(* completion makes of the result.                                         *)
(***************************************************************************)
\* Bound: the length of what precedes the ending of a model string.
MaxBaseLen == 2

ParseEndings ==
  { <<>>, <<":">> \o SuffixChars("floor"), <<":">> \o SuffixChars("nitro"),
    SuffixChars("floor"), <<":", "f", "l", "o", "o">>,
    <<":">> \o SuffixChars("floor") \o <<":">> \o SuffixChars("nitro"),
    <<":">> \o SuffixChars("nitro") \o <<":">> \o SuffixChars("floor") }

ParseStrings ==
  { base \o ending : base \in SeqsUpTo({"a", "/", ":"}, MaxBaseLen),
                     ending \in ParseEndings }

ParseInit ==
  /\ fitIn = <<>>
  /\ fitMax = 0
  /\ fitOut = <<>>
  /\ fitPc = "off"
  /\ parseIn \in ParseStrings
  /\ parseOut = None
  /\ InitClient
  /\ InitCache
  /\ InitConv

Parse ==
  /\ parseOut = None
  /\ parseOut' = Some([parsed |-> parseModel(parseIn),
                       sent |-> ModelForAPI(parseModel(parseIn))])
  /\ UNCHANGED <<fitIn, fitMax, fitOut, fitPc, parseIn, clientVars, ticks, cacheVars,
                 h, convVars>>

ParseNext == Parse

ParseSpec == ParseInit /\ [][ParseNext]_vars
(***************************************************************************)
(* The upstream: what it may answer to one request.  status 0 is a         *)
(* transport error (no response); the others carry headers.                *)
(***************************************************************************)
HttpResponses ==
  [status : {200, 429, 500}, hRemaining : {NoHeader, "0"},
   hReset : {NoHeader, "5"}, hLimit : {NoHeader, "5"},
   retryAfter : {NoHeader, "2"}]

TransportError ==
  [status |-> 0, hRemaining |-> NoHeader, hReset |-> NoHeader,
   hLimit |-> NoHeader, retryAfter |-> NoHeader]

AllResponses == HttpResponses \cup {TransportError}

\* Model ids given to fetchModelEndpoints.
ModelAB == <<"a", "/", "b">>
ModelNoSlash == <<"a", "b">>
ModelTwoSlashes == <<"a", "/", "b", "/", "c">>

ClientArgs(m) ==
  IF m = "fetchModelEndpoints" THEN {ModelAB, ModelNoSlash, ModelTwoSlashes} ELSE {Null}

\* Body returned by the upstream to a successful request.
Body == "body"

(***************************************************************************)
(* Steps of one client call.                                               *)
(***************************************************************************)
\* this.axiosInstance.get / post / request: the request goes out at time t.
Send(c, t) ==
  [c EXCEPT !.pc = "inflight", !.reqs = @ + 1,
            !.firstReqAt = IF @ = -1 THEN t ELSE @]

\* A call of axiosInstance.get or post by the method: a new attempt.
Attempt(c, t) == Send([c EXCEPT !.attempts = @ + 1, !.chain = 0], t)

\* The call ends by returning or raising.
Finish(c, res) == [c EXCEPT !.pc = "done", !.result = res]

\* throw new Error("Invalid model format. Expected 'author/slug', ...").
FormatError == [kind |-> "invalid", error |-> [status |-> -1, req |-> 0]]

\* After the rate-limit check of the two fetch methods: the format check of
\* fetchModelEndpoints, then the first iteration of the retry loop.
EnterLoop(c, t) ==
  IF c.method = "fetchModelEndpoints" /\ ~ValidEndpointModel(c.arg)
  THEN Finish(c, FormatError)
  ELSE Attempt(c, t)

\* The synchronous head of a client method, up to its first await.
StartCall(c, m, a, rl, t) ==
  LET c0 == [c EXCEPT !.method = m, !.arg = a, !.i = 0, !.result = Null,
                      !.calledAt = t, !.rlAtCall = rl, !.firstReqAt = -1,
                      !.reqs = 0, !.attempts = 0, !.fails = 0, !.chain = 0,
                      !.n429 = 0, !.lastStatus = -1,
                      !.backoffs = <<>>, !.lastRetryWait = 0]
  IN IF m \in LoopMethods
     THEN IF MustWait(rl, t)
          THEN [c0 EXCEPT !.pc = "rateWait", !.wakeAt = rl.reset]
          ELSE EnterLoop(c0, t)
     ELSE Attempt(c0, t)

\* A client whose single-shot methods run the retry loop as well.
FailRetryingAll(c, err, t) ==
  IF ~IsLastAttempt(c.i)
  THEN [c EXCEPT !.pc = "backoff", !.wakeAt = t + RETRY_DELAYS[c.i + 1],
                 !.fails = @ + 1,
                 !.backoffs = Append(@, RETRY_DELAYS[c.i + 1])]
  ELSE Finish([c EXCEPT !.fails = @ + 1], [kind |-> "error", error |-> err])

\* The error interceptor rethrows; the catch block of the retry loop sleeps
\* RETRY_DELAYS[i] or, at the last index, rethrows.  The single-shot
\* methods have no catch block.
Fail(c, err, t) ==
  IF c.method \in LoopMethods /\ ~IsLastAttempt(c.i)
  THEN [c EXCEPT !.pc = "backoff", !.wakeAt = t + RETRY_DELAYS[c.i + 1],
                 !.fails = @ + 1,
                 !.backoffs = Append(@, RETRY_DELAYS[c.i + 1])]
  ELSE Finish([c EXCEPT !.fails = @ + 1], [kind |-> "error", error |-> err])

\* A timer set for wakeAt fires at wakeAt or later; timers fire in order.
Asleep(p) == cl[p].pc \in {"rateWait", "retryAfter", "backoff"}

FiresNext(p) == \A q \in Procs : Asleep(q) => cl[p].wakeAt <= cl[q].wakeAt

WakeTime(p) == IF now >= cl[p].wakeAt THEN now ELSE cl[p].wakeAt

(***************************************************************************)
(* Actions of the client.                                                  *)
(***************************************************************************)
\* A caller invokes a client method.
ClientCall(p, m, a) ==
  /\ cl[p].pc = "idle"
  /\ h[p].pc = "idle"
  /\ cl[p].calls < MaxCalls
  /\ cl' = [cl EXCEPT ![p] = StartCall([@ EXCEPT !.calls = @ + 1], m, a, rateLimit, now)]
  /\ UNCHANGED <<now, rateLimit, nonClientVars>>

\* await setTimeout(waitTime) of the rate-limit check returns.
WakeRateWait(p) ==
  /\ cl[p].pc = "rateWait"
  /\ FiresNext(p)
  /\ now' = WakeTime(p)
  /\ cl' = [cl EXCEPT ![p] = EnterLoop(@, WakeTime(p))]
  /\ UNCHANGED <<rateLimit, nonClientVars>>

\* A client whose interceptors take the rate-limit headers of every
\* response, failed ones included.
RespondUpdatingAlways(p, r, d) ==
  /\ cl[p].pc = "inflight"
  /\ r.status = 429 => cl[p].n429 < Max429
  /\ rateLimit' = IF r.status = 0 THEN rateLimit ELSE RateLimitFromHeaders(r, now)
  /\ LET c == [cl[p] EXCEPT !.lastStatus = r.status] IN
     IF r.status = 200
     THEN cl' = [cl EXCEPT ![p] =
                   Finish(c, [kind |-> "ok", data |-> d, timestamp |-> now])]
     ELSE IF r.status = 429
     THEN cl' = [cl EXCEPT ![p] =
                   [c EXCEPT !.pc = "retryAfter",
                             !.wakeAt = now + HeaderOr(r.retryAfter, "60") * 1000,
                             !.n429 = @ + 1,
                             !.lastRetryWait = HeaderOr(r.retryAfter, "60") * 1000]]
     ELSE cl' = [cl EXCEPT ![p] =
                   Fail(c, [status |-> r.status, req |-> c.reqs], now)]
  /\ UNCHANGED <<now, nonClientVars>>

\* The response to the request in flight arrives and the interceptors and
\* the awaiting method run.
Respond(p, r, d) ==
  /\ cl[p].pc = "inflight"
  /\ r.status = 429 => cl[p].n429 < Max429
  /\ LET c == [cl[p] EXCEPT !.lastStatus = r.status] IN
     IF r.status = 200
     THEN /\ rateLimit' = RateLimitFromHeaders(r, now)
          /\ cl' = [cl EXCEPT ![p] =
                      Finish(c, [kind |-> "ok", data |-> d, timestamp |-> now])]
     ELSE /\ UNCHANGED rateLimit
          /\ IF r.status = 429
             THEN cl' = [cl EXCEPT ![p] =
                    [c EXCEPT !.pc = "retryAfter",
                              !.wakeAt = now + HeaderOr(r.retryAfter, "60") * 1000,
                              !.n429 = @ + 1,
                              !.lastRetryWait = HeaderOr(r.retryAfter, "60") * 1000]]
             ELSE cl' = [cl EXCEPT ![p] =
                    Fail(c, [status |-> r.status, req |-> c.reqs], now)]
  /\ UNCHANGED <<now, nonClientVars>>

\* await setTimeout(resetAfter * 1000) of the error interceptor returns and
\* the interceptor re-issues error.config through the same axios instance.
WakeRetryAfter(p) ==
  /\ cl[p].pc = "retryAfter"
  /\ FiresNext(p)
  /\ now' = WakeTime(p)
  /\ cl' = [cl EXCEPT ![p] = Send([@ EXCEPT !.chain = @ + 1], WakeTime(p))]
  /\ UNCHANGED <<rateLimit, nonClientVars>>

\* await setTimeout(RETRY_DELAYS[i]) returns: i++ and the next attempt.
WakeBackoff(p) ==
  /\ cl[p].pc = "backoff"
  /\ FiresNext(p)
  /\ now' = WakeTime(p)
  /\ cl' = [cl EXCEPT ![p] = Attempt([@ EXCEPT !.i = @ + 1], WakeTime(p))]
  /\ UNCHANGED <<rateLimit, nonClientVars>>

\* t seen from a clock whose origin is moved to the present.
Rebase(t) == t - now

\* The caller takes the result of a finished call.  The client depends on
\* differences of times only; with no call in progress the origin of the
\* clock is moved to the present.
ClientReturn(p) ==
  /\ cl[p].pc = "done"
  /\ h[p].pc = "idle"
  /\ cl' = [cl EXCEPT ![p] = [IdleCall EXCEPT !.calls = cl[p].calls]]
  /\ IF \A q \in Procs \ {p} : cl[q].pc = "idle"
     THEN /\ now' = 0
          /\ rateLimit' = [rateLimit EXCEPT !.reset = Rebase(@)]
     ELSE UNCHANGED <<now, rateLimit>>
  /\ UNCHANGED nonClientVars

\* Callers of the client specification.
ClientProcs == {"p1"}

ClientNext ==
  \/ \E p \in ClientProcs, m \in Methods : \E a \in ClientArgs(m) : ClientCall(p, m, a)
  \/ \E p \in ClientProcs : WakeRateWait(p)
  \/ \E p \in ClientProcs, r \in AllResponses : Respond(p, r, Body)
  \/ \E p \in ClientProcs : WakeRetryAfter(p)
  \/ \E p \in ClientProcs : WakeBackoff(p)
  \/ \E p \in ClientProcs : ClientReturn(p)

ClientSpec == Init /\ [][ClientNext]_vars

(***************************************************************************)
(* Two callers use the client side by side: fetchModels calls on the one   *)
(* rateLimit, against an upstream that answers 500, 200, or 200 with       *)
(* x-ratelimit-remaining: 0 and x-ratelimit-reset: 5.  The callers are     *)
(* interchangeable: the second one calls while the first has a call in     *)
(* progress.                                                               *)
(***************************************************************************)
SharedResponses ==
  { r \in HttpResponses : /\ r.status \in {200, 500}
                          /\ r.hLimit = NoHeader /\ r.retryAfter = NoHeader
                          /\ (r.hRemaining = "0") = (r.hReset = "5")
                          /\ r.status = 500 => r.hRemaining = NoHeader }

\* MaxCalls bounds the calls of both callers together.
SharedCalls == cl["p1"].calls + cl["p2"].calls

SharedNext ==
  \/ SharedCalls < MaxCalls /\ ClientCall("p1", "fetchModels", Null)
  \/ /\ SharedCalls < MaxCalls
     /\ cl["p1"].pc # "idle"
     /\ ClientCall("p2", "fetchModels", Null)
  \/ \E p \in Procs : WakeRateWait(p)
  \/ \E p \in Procs, r \in SharedResponses : Respond(p, r, Body)
  \/ \E p \in Procs : WakeBackoff(p)
  \/ \E p \in Procs : ClientReturn(p)

SharedSpec == Init /\ [][SharedNext]_vars

(***************************************************************************)
(* The catalog tools: tool-handlers/validate-model.ts, get-model-info.ts,  *)
(* get-model-providers.ts and search-models.ts.                            *)
(***************************************************************************)
MaxTicks == 2

ModelCD == <<"c", "/", "d">>

WithSuffix(model, suffix) == model \o <<":">> \o SuffixChars(suffix)

\* Listings the upstream may return for GET /models.
Catalogs == { <<[id |-> ModelAB]>>, <<[id |-> ModelAB], [id |-> ModelCD]>> }

\* Model ids given to the catalog tools.
ToolModels == { ModelAB, ModelCD, WithSuffix(ModelAB, "floor"), WithSuffix(ModelCD, "nitro") }

CatalogTools == {"validate_model", "get_model_info", "get_model_providers", "search_models"}

IdsOf(snapshot) ==
  IF snapshot = None THEN {}
  ELSE { snapshot[1].data[k].id : k \in 1..Len(snapshot[1].data) }

\* The tool call returns res.
ToolDone(t, res, cm, time) ==
  [t EXCEPT !.pc = "done", !.result = res, !.view = Some(IdsOf(getCachedModels(cm, time)))]

\* Time passes between two tool calls: a millisecond, or the lifetime of
\* the cache.
Tick(d) ==
  /\ \A p \in Procs : h[p].pc = "idle" /\ cl[p].pc = "idle"
  /\ ticks < MaxTicks
  /\ ticks' = ticks + 1
  /\ now' = now + d
  /\ UNCHANGED <<rateLimit, cl, fitVars, cacheVars, h, convVars>>

\* ModelCache.clearCache().
ClearCache ==
  /\ \A p \in Procs : h[p].pc = "idle" /\ cl[p].pc = "idle"
  /\ cachedModels # None
  /\ cachedModels' = clearCache
  /\ invalidated' = TRUE
  /\ UNCHANGED <<lastSet, replaced, clientVars, fitVars, ticks, h, convVars>>

\* The head of a catalog tool handler, up to its first await of the client.
ToolCall(p, tool, model) ==
  /\ h[p].pc = "idle"
  /\ cl[p].pc = "idle"
  /\ h[p].n < MaxCalls
  /\ LET t0 == [IdleTool EXCEPT !.tool = tool, !.model = model, !.n = h[p].n + 1,
                               !.absentAtStart = (getCachedModels(cachedModels, now) = None)]
         fetch == /\ h' = [h EXCEPT ![p] = [t0 EXCEPT !.pc = "fetching", !.listCalls = 1]]
                  /\ cl' = [cl EXCEPT ![p] = StartCall(@, "fetchModels", Null, rateLimit, now)]
         finish(res) == /\ h' = [h EXCEPT ![p] = ToolDone(t0, res, cachedModels, now)]
                        /\ UNCHANGED cl
     IN CASE tool = "validate_model" ->
               LET isValid == validateModel(cachedModels, now, model) IN
               finish([kind |-> IF isValid THEN "valid" ELSE "model_not_found"])
          [] tool = "get_model_info" ->
               LET modelInfo == getModelInfo(cachedModels, now, model) IN
               IF modelInfo # None
               THEN finish([kind |-> "found", id |-> modelInfo[1].id])
               ELSE fetch
          [] tool = "get_model_providers" ->
               IF validateModel(cachedModels, now, model)
               THEN /\ h' = [h EXCEPT ![p] = [t0 EXCEPT !.pc = "endpoints"]]
                    /\ cl' = [cl EXCEPT ![p] =
                                StartCall(@, "fetchModelEndpoints", model, rateLimit, now)]
               ELSE fetch
          [] tool = "search_models" ->
               LET models == getCachedModels(cachedModels, now) IN
               IF models # None
               THEN finish([kind |-> "list", ids |-> IdsOf(models)])
               ELSE fetch
  /\ UNCHANGED <<now, rateLimit, fitVars, ticks, cacheVars, convVars>>

\* The handler continues after await apiClient.fetchModels(): it stores the
\* listing with the current time and looks the model up again; a raised
\* error goes to the catch block.
AfterFetchModels(p) ==
  /\ h[p].pc = "fetching"
  /\ cl[p].pc = "done"
  /\ LET res == cl[p].result
         t0 == h[p]
         stored == setCachedModels([data |-> res.data, timestamp |-> now])
         t1 == [t0 EXCEPT !.fetched = Some(res.data)]
         idle == [IdleCall EXCEPT !.calls = cl[p].calls]
     IN IF res.kind # "ok"
        THEN /\ h' = [h EXCEPT ![p] = ToolDone(t0, [kind |-> "failed"], cachedModels, now)]
             /\ cl' = [cl EXCEPT ![p] = idle]
             /\ UNCHANGED cacheVars
        ELSE /\ cachedModels' = stored
             /\ lastSet' = Some([data |-> res.data, timestamp |-> now])
             /\ invalidated' = FALSE
             /\ replaced' = IF lastSet = None THEN None ELSE Some(lastSet[1].data)
             /\ CASE t0.tool = "get_model_info" ->
                       LET modelInfo == getModelInfo(stored, now, t0.model) IN
                       /\ h' = [h EXCEPT ![p] = ToolDone(t1,
                                  IF modelInfo = None THEN [kind |-> "not_found"]
                                  ELSE [kind |-> "found", id |-> modelInfo[1].id],
                                  stored, now)]
                       /\ cl' = [cl EXCEPT ![p] = idle]
                  [] t0.tool = "get_model_providers" ->
                       IF validateModel(stored, now, t0.model)
                       THEN /\ h' = [h EXCEPT ![p] = [t1 EXCEPT !.pc = "endpoints"]]
                            /\ cl' = [cl EXCEPT ![p] =
                                        StartCall(idle, "fetchModelEndpoints", t0.model,
                                                  rateLimit, now)]
                       ELSE /\ h' = [h EXCEPT ![p] =
                                        ToolDone(t1, [kind |-> "not_found"], stored, now)]
                            /\ cl' = [cl EXCEPT ![p] = idle]
                  [] t0.tool = "search_models" ->
                       /\ h' = [h EXCEPT ![p] = ToolDone(t1,
                                  [kind |-> "list",
                                   ids |-> { res.data[k].id : k \in 1..Len(res.data) }],
                                  stored, now)]
                       /\ cl' = [cl EXCEPT ![p] = idle]
  /\ UNCHANGED <<now, rateLimit, fitVars, ticks, convVars>>

\* get_model_providers continues after await apiClient.fetchModelEndpoints.
AfterFetchEndpoints(p) ==
  /\ h[p].pc = "endpoints"
  /\ cl[p].pc = "done"
  /\ h' = [h EXCEPT ![p] = ToolDone(@,
             IF cl[p].result.kind = "ok" THEN [kind |-> "providers"]
             ELSE [kind |-> "failed"], cachedModels, now)]
  /\ cl' = [cl EXCEPT ![p] = [IdleCall EXCEPT !.calls = cl[p].calls]]
  /\ UNCHANGED <<now, rateLimit, fitVars, ticks, cacheVars, convVars>>

RebaseSnapshot(s) ==
  IF s = None THEN None ELSE Some([s[1] EXCEPT !.timestamp = Rebase(@)])

\* The tool layer takes the result of the handler.  Handlers and cache
\* depend on differences of times only; with no call in progress the origin
\* of the clock is moved to the present.
ToolReturn(p) ==
  /\ h[p].pc = "done"
  /\ h' = [h EXCEPT ![p] = [IdleTool EXCEPT !.n = h[p].n]]
  /\ IF \A q \in Procs \ {p} : h[q].pc = "idle" /\ cl[q].pc = "idle"
     THEN /\ now' = 0
          /\ rateLimit' = [rateLimit EXCEPT !.reset = Rebase(@)]
          /\ cachedModels' = RebaseSnapshot(cachedModels)
          /\ lastSet' = RebaseSnapshot(lastSet)
     ELSE UNCHANGED <<now, rateLimit, cachedModels, lastSet>>
  /\ UNCHANGED <<cl, fitVars, ticks, invalidated, replaced, convVars>>

\* The upstream of the catalog specification answers 200 or 500 and sends
\* no rate-limit headers.
PlainResponses ==
  { r \in AllResponses : /\ r.status \in {200, 500}
                         /\ r.hRemaining = NoHeader /\ r.hReset = NoHeader
                         /\ r.hLimit = NoHeader /\ r.retryAfter = NoHeader }

ResponseData(method) == IF method = "fetchModels" THEN Catalogs ELSE {Body}

CacheProcs == {"p1"}

CacheNext ==
  \/ \E p \in CacheProcs, tool \in CatalogTools, model \in ToolModels : ToolCall(p, tool, model)
  \/ \E p \in CacheProcs : AfterFetchModels(p)
  \/ \E p \in CacheProcs : AfterFetchEndpoints(p)
  \/ \E p \in CacheProcs : ToolReturn(p)
  \/ \E p \in CacheProcs, r \in PlainResponses : \E d \in ResponseData(cl[p].method) : Respond(p, r, d)
  \/ \E p \in CacheProcs : WakeBackoff(p)
  \/ ClearCache
  \/ \E d \in {1, cacheExpiry} : Tick(d)

CacheSpec == Init /\ [][CacheNext]_vars

(***************************************************************************)
(* search_models against an upstream that may fail in every way: the       *)
(* shared rate-limit state and the cached catalog under failed requests.   *)
(***************************************************************************)
\* Answers of the upstream: any status or a transport error, with or
\* without x-ratelimit-remaining: 0.
FrameResponses ==
  { r \in AllResponses : r.hReset = NoHeader /\ r.hLimit = NoHeader
                                             /\ r.retryAfter = NoHeader }

FrameNext ==
  \/ \E p \in CacheProcs : ToolCall(p, "search_models", ModelAB)
  \/ \E p \in CacheProcs : AfterFetchModels(p)
  \/ \E p \in CacheProcs : ToolReturn(p)
  \/ \E p \in CacheProcs, r \in FrameResponses, d \in Catalogs : Respond(p, r, d)
  \/ \E p \in CacheProcs : WakeRateWait(p)
  \/ \E p \in CacheProcs : WakeRetryAfter(p)
  \/ \E p \in CacheProcs : WakeBackoff(p)
  \/ ClearCache
  \/ Tick(cacheExpiry)

FrameSpec == Init /\ [][FrameNext]_vars
(***************************************************************************)
(* The CallTool request handler of tool-handlers.ts with                   *)
(* tool-handlers/chat-completion.ts and delete-conversation.ts, working on *)
(* the conversation store.  A request carries the conversation id the tool *)
(* works on in its arguments, and may carry one at the top level of params *)
(* for the log of tool calls; ConvSpec has the requests without the        *)
(* latter, LogSpec those with it.                                          *)
(***************************************************************************)
\* Bounds: conversations created, and tool calls made by all callers.
MaxConvs == 2
MaxToolCalls == 3

\* Tool calls made so far, by all callers.
ToolCalls == SumSeq([k \in 1..2 |-> h[<<"p1", "p2">>[k]].n])

\* Callers are interchangeable slots for concurrent tool calls: a new call
\* takes the first free one.
FirstFree(p) == p = "p1" \/ h["p1"].pc # "idle"

Remove(seq, x) == SelectSeq(seq, LAMBDA y : y # x)

\* Arguments of chat completion: the messages (each caller sends its own
\* text, so that the order of two callers' messages in a history can be told)
\* and the model (empty when none is given and no default is configured).
ChatInputs(p) ==
  { <<>>,
    <<[role |-> "user", content |-> IF p = "p1" THEN <<"a">> ELSE <<"b">>]>> }

ChatModels == { <<>>, WithSuffix(ModelAB, "floor") }

\* completion.choices[0].message of a successful upstream answer.
AssistantReply == [role |-> "assistant", content |-> <<"o", "k">>]

ApiMessages(history) ==
  [k \in 1..Len(history) |-> [role |-> history[k].role, content |-> history[k].content]]

Stamped(messages, t) ==
  [k \in 1..Len(messages) |->
     [role |-> messages[k].role, content |-> messages[k].content, timestamp |-> t]]

HandlerDone(t, res) == [t EXCEPT !.pc = "done", !.result = res]

\* Calls that will create a conversation when their upstream answer arrives.
PendingCreates ==
  Cardinality({ q \in Procs : h[q].pc = "chatting" /\ h[q].conversationId = 0 })

\* The messages the CallTool request handler of tool-handlers.ts writes
\* around a tool: "Tool call: <name> with arguments: ..." before it and
\* "Tool result: <name> completed. Output: ..." after it.
ToolMessage(text, toolName, t) ==
  [role |-> "tool", content |-> <<text>>, timestamp |-> t, toolName |-> toolName]

\* A tool layer that logs tool calls and no tool results.
LogToolCallsOnly(map, topId, text, toolName, t) ==
  IF topId # 0 /\ topId \in DOMAIN map /\ text = "Tool call"
  THEN addMessageToConversation(map, topId, ToolMessage(text, toolName, t), t)
  ELSE map

\* if (conversationId) { if (getConversation(conversationId)) add ... }, for
\* the conversationId at the top level of params; 0 stands for none.
LogTool(map, topId, text, toolName, t) ==
  IF topId # 0 /\ topId \in DOMAIN map
  THEN addMessageToConversation(map, topId, ToolMessage(text, toolName, t), t)
  ELSE map

\* The record of executed appends after the same step.
LogToolAppend(log, map, topId, text, toolName, t) ==
  IF topId # 0 /\ topId \in DOMAIN map
  THEN [log EXCEPT ![topId] = Append(@, ToolMessage(text, toolName, t))]
  ELSE log

\* The CallTool request handler for chat completion: the log of the tool
\* call, made for every tool before the switch, then
\* handleChatCompletion up to await apiClient.chatCompletion(...).
\* conversationId 0 stands for an absent conversationId.
ChatCall(p, topId, conversationId, messages, rawModel) ==
  /\ h[p].pc = "idle"
  /\ cl[p].pc = "idle"
  /\ FirstFree(p)
  /\ ToolCalls < MaxToolCalls
  /\ conversationId = 0 => nextId + PendingCreates <= MaxConvs
  /\ conversations' = LogTool(conversations, topId, "Tool call", "chat_completion", now)
  /\ appendLog' = LogToolAppend(appendLog, conversations, topId, "Tool call",
                                "chat_completion", now)
  /\ LET t0 == [IdleTool EXCEPT !.tool = "chat_completion", !.n = h[p].n + 1,
                               !.model = rawModel, !.conversationId = conversationId,
                               !.messages = messages, !.topId = topId]
         parsedModel == parseModel(rawModel)
         model == parsedModel.baseModel
         fail(kind) == /\ h' = [h EXCEPT ![p] =
                                  HandlerDone(t0, [kind |-> kind,
                                                   conversationId |-> conversationId])]
                       /\ UNCHANGED cl
     IN IF rawModel = <<>> THEN fail("no_model")
        ELSE IF messages = <<>> THEN fail("empty_messages")
        ELSE IF conversationId # 0 /\ conversationId \notin DOMAIN conversations
        THEN fail("conversation_not_found")
        ELSE LET messagesForAPI ==
                   IF conversationId # 0
                   THEN ApiMessages(conversations'[conversationId].history) \o messages
                   ELSE messages
                 truncatedMessages == truncateMessagesToFit(messagesForAPI, MAX_CONTEXT_TOKENS)
                 modelForAPI == ModelForAPI(parsedModel)
             IN /\ h' = [h EXCEPT ![p] =
                          [t0 EXCEPT !.pc = "chatting", !.sent = truncatedMessages,
                                     !.readHistory =
                                        IF conversationId # 0
                                        THEN conversations'[conversationId].history
                                        ELSE <<>>]]
                /\ cl' = [cl EXCEPT ![p] =
                            StartCall(@, "chatCompletion", modelForAPI, rateLimit, now)]
  /\ UNCHANGED <<now, rateLimit, fitVars, ticks, cacheVars, order, nextId, callerArray>>

\* A handler that adds the request messages to the conversation whatever
\* the answer was, and reports an error.
AfterChatKeepingRequest(p) ==
  /\ h[p].pc = "chatting"
  /\ cl[p].pc = "done"
  /\ cl' = [cl EXCEPT ![p] = [IdleCall EXCEPT !.calls = cl[p].calls]]
  /\ conversations' = addMessages(conversations, h[p].conversationId, h[p].messages, now)
  /\ h' = [h EXCEPT ![p] =
             HandlerDone(h[p], [kind |-> "api_error",
                                conversationId |-> h[p].conversationId])]
  /\ UNCHANGED <<now, rateLimit, fitVars, ticks, cacheVars, order, nextId, appendLog,
                 callerArray>>

\* handleChatCompletion after the await: on success the request messages and
\* the reply are added to the given conversation, or to a new one; a raised
\* error goes to the catch block.
AfterChat(p) ==
  /\ h[p].pc = "chatting"
  /\ cl[p].pc = "done"
  /\ cl' = [cl EXCEPT ![p] = [IdleCall EXCEPT !.calls = cl[p].calls]]
  /\ LET res == cl[p].result
         t0 == h[p]
         reply == [role |-> res.data.role, content |-> res.data.content, timestamp |-> now]
         added == Append(Stamped(t0.messages, now), reply)
     IN IF res.kind # "ok"
        THEN /\ h' = [h EXCEPT ![p] =
                        HandlerDone(t0, [kind |-> "api_error",
                                         conversationId |-> t0.conversationId])]
             /\ UNCHANGED convVars
        ELSE IF t0.conversationId # 0
        THEN LET id == t0.conversationId IN
             /\ conversations' =
                  addMessageToConversation(
                    addMessages(conversations, id, t0.messages, now), id, reply, now)
             /\ appendLog' = IF id \in DOMAIN conversations
                             THEN [appendLog EXCEPT ![id] = @ \o added]
                             ELSE appendLog
             /\ h' = [h EXCEPT ![p] =
                        HandlerDone(t0, [kind |-> "ok", conversationId |-> id])]
             /\ UNCHANGED <<order, nextId, callerArray>>
        ELSE LET id == nextId IN
             /\ conversations' =
                  addMessageToConversation(
                    addMessages(createConversation(conversations, id, <<>>, now),
                                id, t0.messages, now), id, reply, now)
             /\ order' = Append(order, id)
             /\ nextId' = nextId + 1
             /\ appendLog' = MapSet(appendLog, id, added)
             /\ UNCHANGED callerArray
             /\ h' = [h EXCEPT ![p] =
                        HandlerDone(t0, [kind |-> "ok", conversationId |-> id])]
  /\ UNCHANGED <<now, rateLimit, fitVars, ticks, cacheVars>>

\* The CallTool request handler for delete_conversation: the log of the
\* tool call, handleDeleteConversation, and the log of the tool result if
\* the conversation named at the top level is (still) there.
DeleteCall(p, topId, conversationId) ==
  /\ h[p].pc = "idle"
  /\ cl[p].pc = "idle"
  /\ FirstFree(p)
  /\ ToolCalls < MaxToolCalls
  /\ LET logged == LogTool(conversations, topId, "Tool call", "delete_conversation", now)
         deleted == conversationId \in DOMAIN logged
         after == deleteConversation(logged, conversationId)
     IN /\ conversations' = LogTool(after, topId, "Tool result", "delete_conversation", now)
        /\ order' = Remove(order, conversationId)
        /\ appendLog' = LogToolAppend(
                           LogToolAppend(appendLog, conversations, topId, "Tool call",
                                         "delete_conversation", now),
                           after, topId, "Tool result", "delete_conversation", now)
        /\ h' = [h EXCEPT ![p] =
                   HandlerDone([IdleTool EXCEPT !.tool = "delete_conversation",
                                                !.n = h[p].n + 1,
                                                !.conversationId = conversationId,
                                                !.topId = topId],
                               [kind |-> IF deleted THEN "deleted" ELSE "not_deleted",
                                conversationId |-> conversationId])]
  /\ UNCHANGED <<clientVars, fitVars, ticks, cacheVars, nextId, callerArray>>

\* The CallTool request handler for validate_model, a tool that does not
\* work on conversations: the log of the call, handleValidateModel, the log
\* of the result.
ValidateCall(p, topId, model) ==
  /\ h[p].pc = "idle"
  /\ cl[p].pc = "idle"
  /\ FirstFree(p)
  /\ ToolCalls < MaxToolCalls
  /\ LET logged == LogTool(conversations, topId, "Tool call", "validate_model", now)
         isValid == validateModel(cachedModels, now, model)
     IN /\ conversations' = LogTool(logged, topId, "Tool result", "validate_model", now)
        /\ appendLog' = LogToolAppend(
                           LogToolAppend(appendLog, conversations, topId, "Tool call",
                                         "validate_model", now),
                           logged, topId, "Tool result", "validate_model", now)
        /\ h' = [h EXCEPT ![p] =
                   HandlerDone([IdleTool EXCEPT !.tool = "validate_model",
                                                !.n = h[p].n + 1, !.model = model,
                                                !.topId = topId],
                               [kind |-> IF isValid THEN "valid" ELSE "model_not_found"])]
  /\ UNCHANGED <<clientVars, fitVars, ticks, cacheVars, order, nextId, callerArray>>

\* The tool layer takes the result of the handler.
ConvReturn(p) ==
  /\ h[p].pc = "done"
  /\ h' = [h EXCEPT ![p] = [IdleTool EXCEPT !.n = h[p].n]]
  /\ UNCHANGED <<clientVars, fitVars, ticks, cacheVars, convVars>>

\* Date.now() advances by a millisecond.  The conversation store sees the
\* clock only when the handler continues after the await, so time that
\* passes earlier is observed as time that passes between the arrival of
\* the response and that continuation.
ClockTick ==
  /\ ticks < MaxTicks
  /\ \E p \in Procs : h[p].pc = "chatting" /\ cl[p].pc = "done"
  /\ ticks' = ticks + 1
  /\ now' = now + 1
  /\ UNCHANGED <<rateLimit, cl, fitVars, cacheVars, h, convVars>>

ConvProcs == {"p1", "p2"}

ConvNext ==
  \/ \E p \in ConvProcs, id \in 0..MaxConvs, model \in ChatModels :
     \E messages \in ChatInputs(p) :
        ChatCall(p, 0, id, messages, model)
  \/ \E p \in ConvProcs : AfterChat(p)
  \/ \E p \in ConvProcs, id \in 1..MaxConvs : DeleteCall(p, 0, id)
  \/ \E p \in ConvProcs : ConvReturn(p)
  \/ \E p \in ConvProcs, r \in PlainResponses : Respond(p, r, AssistantReply)
  \/ ClockTick

ConvSpec == Init /\ [][ConvNext]_vars

\* One caller whose requests may name a conversation at the top level.
LogProcs == {"p1"}

LogNext ==
  \/ \E p \in LogProcs, topId \in 0..MaxConvs, id \in 0..MaxConvs :
        ChatCall(p, topId, id, <<[role |-> "user", content |-> <<"a">>]>>,
                 WithSuffix(ModelAB, "floor"))
  \/ \E p \in LogProcs : AfterChat(p)
  \/ \E p \in LogProcs, topId \in 0..MaxConvs, id \in 1..MaxConvs : DeleteCall(p, topId, id)
  \/ \E p \in LogProcs, topId \in 0..MaxConvs : ValidateCall(p, topId, ModelAB)
  \/ \E p \in LogProcs : ConvReturn(p)
  \/ \E p \in LogProcs, r \in PlainResponses : Respond(p, r, AssistantReply)

LogSpec == Init /\ [][LogNext]_vars
(***************************************************************************)
(* ConversationManager used directly, as conversation-manager.test.ts      *)
(* uses it: create, get, append, list and delete are synchronous calls of  *)
(* one user, who holds one array and may pass it as initialMessages.  The  *)
(* last call and the value it returned are kept in h["p1"].                *)
(***************************************************************************)
\* Bound: calls of create, append and delete.
MaxStoreOps == 4

\* The message the user appends (timestamp is optional and left out).
StoreMessages == { [role |-> "assistant", content |-> <<"b">>] }

StoreCalled(name, counted, id, res) ==
  [h EXCEPT !["p1"] = [IdleTool EXCEPT !.tool = name,
                                       !.n = h["p1"].n + (IF counted THEN 1 ELSE 0),
                                       !.conversationId = id, !.result = res]]

\* history.push(message) on a history that is the user's array is a push on
\* that array: every conversation that has the array as its history shows it.
PushShared(map, id, array) ==
  IF id \in array.ids /\ id \in DOMAIN map
  THEN [k \in DOMAIN map |->
          IF k \in array.ids THEN [map[k] EXCEPT !.history = map[id].history]
          ELSE map[k]]
  ELSE map

\* createConversation(initialMessages?): with the user's array, or without
\* an argument.
StoreCreate(withArray) ==
  /\ h["p1"].n < MaxStoreOps
  /\ nextId <= MaxConvs
  /\ LET id == nextId
         initialMessages == IF withArray THEN callerArray.content ELSE <<>>
     IN /\ conversations' = createConversation(conversations, id, initialMessages, now)
        /\ order' = Append(order, id)
        /\ nextId' = nextId + 1
        /\ appendLog' = MapSet(appendLog, id, <<>>)
        /\ callerArray' = IF withArray
                          THEN [callerArray EXCEPT !.ids = @ \cup {id}]
                          ELSE callerArray
        /\ h' = StoreCalled("create", TRUE, id, conversations'[id])
  /\ UNCHANGED <<clientVars, fitVars, ticks, cacheVars>>

\* getConversation(id)
StoreGet(id) ==
  /\ h' = StoreCalled("get", FALSE, id, getConversation(conversations, id))
  /\ UNCHANGED <<clientVars, fitVars, ticks, cacheVars, convVars>>

\* addMessageToConversation(id, message): the conversation, or undefined
\* (None) when there is none.
StoreAppend(id, message) ==
  /\ h["p1"].n < MaxStoreOps
  /\ LET after == addMessageToConversation(conversations, id, message, now)
         found == id \in DOMAIN conversations
     IN /\ conversations' = PushShared(after, id, callerArray)
        /\ appendLog' = IF found THEN [appendLog EXCEPT ![id] = Append(@, message)]
                        ELSE appendLog
        /\ callerArray' = IF found /\ id \in callerArray.ids
                          THEN [callerArray EXCEPT !.content = after[id].history]
                          ELSE callerArray
        /\ h' = StoreCalled("append", TRUE, id,
                            IF found THEN Some(after[id]) ELSE None)
  /\ UNCHANGED <<clientVars, fitVars, ticks, cacheVars, order, nextId>>

\* listConversations()
StoreList ==
  /\ h' = StoreCalled("list", FALSE, 0, listConversations(conversations, order))
  /\ UNCHANGED <<clientVars, fitVars, ticks, cacheVars, convVars>>

\* deleteConversation(id)
StoreDelete(id) ==
  /\ h["p1"].n < MaxStoreOps
  /\ conversations' = deleteConversation(conversations, id)
  /\ order' = Remove(order, id)
  /\ h' = StoreCalled("delete", TRUE, id, deleteReturns(conversations, id))
  /\ UNCHANGED <<clientVars, fitVars, ticks, cacheVars, nextId, appendLog, callerArray>>

\* Date.now() advances by a millisecond between two calls.
StoreTick ==
  /\ ticks < MaxTicks
  /\ ticks' = ticks + 1
  /\ now' = now + 1
  /\ UNCHANGED <<rateLimit, cl, fitVars, cacheVars, h, convVars>>

StoreNext ==
  \/ \E withArray \in BOOLEAN : StoreCreate(withArray)
  \/ \E id \in 1..MaxConvs : StoreGet(id)
  \/ \E id \in 1..MaxConvs : \E message \in StoreMessages : StoreAppend(id, message)
  \/ StoreList
  \/ \E id \in 1..MaxConvs : StoreDelete(id)
  \/ StoreTick

StoreSpec == Init /\ [][StoreNext]_vars

(***************************************************************************)
(* The CallTool request handler of tool-handlers.ts with                   *)
(* tool-handlers/text-completion.ts.  A prompt, like every content, is a   *)
(* sequence of characters, so that lastMessage.content + args.prompt is a  *)
(* concatenation.                                                          *)
(***************************************************************************)
\* args.model and args.prompt: absent (or empty), or given.
TextModels == { <<>>, ModelAB }

TextPrompts == { <<>>, <<"p">> }

\* response.data of a successful answer of /completions: choices[0].text.
TextReply == [text |-> <<"o", "k">>]

\* The CallTool request handler for text completion: the log of the tool
\* call, then handleTextCompletion up to await apiClient.textCompletion(...):
\* the lookup of the conversation and the prompt of the continuation come
\* first, the checks of model and prompt after them.
TextCall(p, topId, conversationId, model, prompt) ==
  /\ h[p].pc = "idle"
  /\ cl[p].pc = "idle"
  /\ FirstFree(p)
  /\ ToolCalls < MaxToolCalls
  /\ conversationId = 0 => nextId + PendingCreates <= MaxConvs
  /\ conversations' = LogTool(conversations, topId, "Tool call", "text_completion", now)
  /\ appendLog' = LogToolAppend(appendLog, conversations, topId, "Tool call",
                                "text_completion", now)
  /\ LET t0 == [IdleTool EXCEPT !.tool = "text_completion", !.n = h[p].n + 1,
                               !.model = model, !.conversationId = conversationId,
                               !.prompt = prompt, !.topId = topId]
         fail(kind) == /\ h' = [h EXCEPT ![p] =
                                  HandlerDone(t0, [kind |-> kind,
                                                   conversationId |-> conversationId])]
                       /\ UNCHANGED cl
     IN IF conversationId # 0 /\ conversationId \notin DOMAIN conversations'
        THEN fail("conversation_not_found")
        ELSE LET history == IF conversationId # 0
                            THEN conversations'[conversationId].history
                            ELSE <<>>
                 finalPrompt ==
                   IF history # <<>> /\ history[Len(history)].role = "assistant"
                   THEN history[Len(history)].content \o prompt
                   ELSE prompt
             IN IF model = <<>> THEN fail("no_model")
                ELSE IF prompt = <<>> THEN fail("no_prompt")
                ELSE /\ h' = [h EXCEPT ![p] =
                               [t0 EXCEPT !.pc = "completing", !.sent = finalPrompt,
                                          !.readHistory = history]]
                     /\ cl' = [cl EXCEPT ![p] =
                                 StartCall(@, "textCompletion", model, rateLimit, now)]
  /\ UNCHANGED <<now, rateLimit, fitVars, ticks, cacheVars, order, nextId, callerArray>>

\* handleTextCompletion after the await: on success the prompt and the
\* completion text are added to the given conversation, or to a new one; a
\* raised error goes to the catch block.
AfterText(p) ==
  /\ h[p].pc = "completing"
  /\ cl[p].pc = "done"
  /\ cl' = [cl EXCEPT ![p] = [IdleCall EXCEPT !.calls = cl[p].calls]]
  /\ LET res == cl[p].result
         t0 == h[p]
         user == [role |-> "user", content |-> t0.prompt, timestamp |-> now]
         completion == [role |-> "assistant", content |-> res.data.text,
                        timestamp |-> now]
     IN IF res.kind # "ok"
        THEN /\ h' = [h EXCEPT ![p] =
                        HandlerDone(t0, [kind |-> "api_error",
                                         conversationId |-> t0.conversationId])]
             /\ UNCHANGED convVars
        ELSE IF t0.conversationId # 0
        THEN LET id == t0.conversationId IN
             /\ conversations' =
                  addMessageToConversation(
                    addMessageToConversation(conversations, id, user, now),
                    id, completion, now)
             /\ appendLog' = IF id \in DOMAIN conversations
                             THEN [appendLog EXCEPT ![id] = @ \o <<user, completion>>]
                             ELSE appendLog
             /\ h' = [h EXCEPT ![p] =
                        HandlerDone(t0, [kind |-> "ok", conversationId |-> id])]
             /\ UNCHANGED <<order, nextId, callerArray>>
        ELSE LET id == nextId IN
             /\ conversations' =
                  addMessageToConversation(
                    addMessageToConversation(
                      createConversation(conversations, id, <<>>, now), id, user, now),
                    id, completion, now)
             /\ order' = Append(order, id)
             /\ nextId' = nextId + 1
             /\ appendLog' = MapSet(appendLog, id, <<user, completion>>)
             /\ h' = [h EXCEPT ![p] =
                        HandlerDone(t0, [kind |-> "ok", conversationId |-> id])]
             /\ UNCHANGED callerArray
  /\ UNCHANGED <<now, rateLimit, fitVars, ticks, cacheVars>>

\* One caller makes completions, with or without a conversation named at the
\* top level of the request; a second one deletes conversations meanwhile.
TextNext ==
  \/ \E topId \in 0..MaxConvs, id \in 0..MaxConvs, model \in TextModels,
        prompt \in TextPrompts : TextCall("p1", topId, id, model, prompt)
  \/ AfterText("p1")
  \/ \E topId \in 0..MaxConvs, id \in 0..MaxConvs, model \in ChatModels :
     \E messages \in ChatInputs("p1") : ChatCall("p1", topId, id, messages, model)
  \/ AfterChat("p1")
  \/ \E id \in 1..MaxConvs : DeleteCall("p2", 0, id)
  \/ \E p \in Procs : ConvReturn(p)
  \/ \E r \in PlainResponses :
        Respond("p1", r, IF cl["p1"].method = "textCompletion"
                         THEN TextReply ELSE AssistantReply)

TextSpec == Init /\ [][TextNext]_vars

\* ---------------------------------------------------------------------------
\* Two completions in flight at once: one caller sends chat completions, the
\* other text completions, on the same conversations; the text completions
\* may also name a conversation at the top level, which the tool layer logs
\* to while the chat completion waits for its answer.
PairChat == <<[role |-> "user", content |-> <<"a">>]>>

PairNext ==
  \/ \E id \in 0..MaxConvs : ChatCall("p1", 0, id, PairChat, WithSuffix(ModelAB, "floor"))
  \/ AfterChat("p1")
  \/ \E topId \in 0..MaxConvs, id \in 1..MaxConvs :
        TextCall("p2", topId, id, ModelAB, <<"p">>)
  \/ AfterText("p2")
  \/ \E p \in Procs : ConvReturn(p)
  \/ \E p \in Procs, r \in PlainResponses :
        Respond(p, r, IF cl[p].method = "textCompletion"
                      THEN TextReply ELSE AssistantReply)

PairSpec == Init /\ [][PairNext]_vars

(***************************************************************************)
(* What the windower is specified to return.                               *)
(***************************************************************************)
TokensOf(msgs) == SumSeq([k \in 1..Len(msgs) |-> estimateTokenCount(msgs[k].content)])

Suffix(s, n) == SubSeq(s, Len(s) - n + 1, Len(s))

\* The longest suffix of rest whose estimated tokens fit in budget.
LongestFittingSuffix(rest, budget) ==
  LET fits == { n \in 0..Len(rest) : TokensOf(Suffix(rest, n)) <= budget }
      best == CHOOSE n \in fits : \A m \in fits : m <= n
  IN IF fits = {} THEN <<>> ELSE Suffix(rest, best)

StartsWithSystem(msgs) == Len(msgs) > 0 /\ msgs[1].role = "system"

\* C4: when the input starts with a system message, fit returns that system
\* message first, followed by the longest suffix of the remaining messages
\* that fits the budget left after reserving the system message's tokens.
C4_SystemFirstThenSuffix ==
  (fitPc = "done" /\ StartsWithSystem(fitIn)) =>
     fitOut = <<fitIn[1]>> \o
              LongestFittingSuffix(Tail(fitIn),
                                   fitMax - estimateTokenCount(fitIn[1].content))

\* C5: the estimated tokens of the messages fit returns sum to at most
\* maxTokens, except when the input starts with a system message whose own
\* estimate exceeds maxTokens, and then exactly that message is returned.
C5_OutputFitsBudget ==
  fitPc = "done" =>
     IF StartsWithSystem(fitIn) /\ estimateTokenCount(fitIn[1].content) > fitMax
     THEN fitOut = <<fitIn[1]>>
     ELSE TokensOf(fitOut) <= fitMax

\* C5 witness: a truncating run with a retained system message and at least
\* one more message, which uses the whole budget.
C5_Witness ==
  /\ fitPc = "done"
  /\ StartsWithSystem(fitIn)
  /\ Len(fitOut) >= 2
  /\ Len(fitOut) < Len(fitIn)
  /\ TokensOf(fitOut) = fitMax

\* C5 witness of the exception: the system message alone exceeds the budget.
C5_WitnessOversizedSystem ==
  /\ fitPc = "done"
  /\ StartsWithSystem(fitIn)
  /\ estimateTokenCount(fitIn[1].content) > fitMax
  /\ Len(fitIn) >= 2

RemoveAt(s, j) == SubSeq(s, 1, j - 1) \o SubSeq(s, j + 1, Len(s))

\* C33: the walk stops at the first message that would exceed the budget
\* and does not pass over it to take an older, smaller one: with the
\* retained system message of the input set aside, what fit returns is a
\* contiguous suffix of the input in the original order, and the message
\* just before that suffix, if there is one, did not fit in the budget that
\* was left.
C33_WalkStopsAtFirstMisfit ==
  fitPc = "done" =>
    \E k \in 0..Len(fitIn) :
      LET walked == SubSeq(fitIn, k + 1, Len(fitIn))
          reserved == IF StartsWithSystem(fitIn)
                      THEN estimateTokenCount(fitIn[1].content) ELSE 0
      IN /\ IF StartsWithSystem(fitIn)
            THEN \E j \in 1..Len(fitOut) :
                    fitOut[j] = fitIn[1] /\ RemoveAt(fitOut, j) = walked
            ELSE fitOut = walked
         /\ k >= 1 =>
              reserved + TokensOf(walked) + estimateTokenCount(fitIn[k].content) > fitMax

\* The walk stopped at a message of 2 tokens although the message before
\* it, of 1 token, would have fit.
C33_WitnessOlderWouldFit ==
  /\ fitPc = "done"
  /\ Len(fitIn) = 3 /\ Len(fitOut) = 1
  /\ fitOut[1] = fitIn[3]
  /\ estimateTokenCount(fitIn[2].content) = 2
  /\ estimateTokenCount(fitIn[1].content) = 1
  /\ TokensOf(fitOut) + 1 <= fitMax

RECURSIVE IsSubsequence(_, _)
IsSubsequence(a, b) ==
  IF a = <<>> THEN TRUE
  ELSE IF b = <<>> THEN FALSE
  ELSE IF Head(a) = Head(b) THEN IsSubsequence(Tail(a), Tail(b))
  ELSE IsSubsequence(a, Tail(b))

\* C34: what fit returns is a subsequence of its input: each message of the
\* input occurs at most once, in the order of the input, with or without a
\* leading system message; when the whole input fits in maxTokens, fit
\* returns the input as it is.
C34_OutputIsSubsequence ==
  fitPc = "done" =>
    /\ IsSubsequence(fitOut, fitIn)
    /\ TokensOf(fitIn) <= fitMax => fitOut = fitIn

(***************************************************************************)
(* Claims about parseModel (ParseSpec).                                    *)
(***************************************************************************)
\* C32: parseModel(s).fullModel is s; when s ends in ":floor" or ":nitro"
\* the suffix is that one and baseModel, ":" and the suffix make s again;
\* otherwise the suffix is unset and baseModel is s.  So the model string
\* chat completion sends upstream is the one it was given.
C32_ParseRoundTrip ==
  parseOut # None =>
    LET r == parseOut[1].parsed
        s == parseIn
        ends(suffix) == EndsWith(s, <<":">> \o SuffixChars(suffix))
    IN /\ r.fullModel = s
       /\ ends("floor") => /\ r.suffix = "floor"
                           /\ r.baseModel \o <<":">> \o SuffixChars("floor") = s
       /\ ends("nitro") => /\ r.suffix = "nitro"
                           /\ r.baseModel \o <<":">> \o SuffixChars("nitro") = s
       /\ (~ends("floor") /\ ~ends("nitro")) => r.suffix = Unset /\ r.baseModel = s
       /\ parseOut[1].sent = s

\* A model string with both endings, ":floor:nitro", was parsed.
C32_WitnessTwoEndings ==
  /\ parseOut # None
  /\ parseOut[1].parsed.suffix = "nitro"
  /\ EndsWith(parseOut[1].parsed.baseModel, <<":">> \o SuffixChars("floor"))
  /\ Len(parseIn) > 12

(***************************************************************************)
(* Claims about the API client.                                            *)
(***************************************************************************)
SingleShot == {"chatCompletion", "textCompletion"}

\* C1: on a 429 the client sleeps for retry-after (60 s when the header is
\* absent) and re-issues the request exactly once more: no request is
\* re-issued twice, a single-shot call answered 429 then 200 succeeds after
\* 2 requests, and one answered 429 twice ends after 2 requests with the
\* second 429 as its failure.
C1_Retry429ExactlyOnce ==
  \A p \in Procs : LET c == cl[p] IN
    /\ c.chain <= 1
    /\ c.pc = "retryAfter" =>
         c.wakeAt = now + c.lastRetryWait
    /\ (c.method \in SingleShot /\ c.pc = "done" /\ c.n429 = 1 /\ c.result.kind = "ok")
         => c.reqs = 2
    /\ (c.method \in SingleShot /\ c.n429 = 2 /\ c.pc # "inflight")
         => /\ c.pc = "done"
            /\ c.reqs = 2
            /\ c.result = [kind |-> "error", error |-> [status |-> 429, req |-> 2]]

\* C2: the retry loop of fetchModels and fetchModelEndpoints makes at most
\* 4 attempts and sleeps 1 s, 2 s, 4 s between them; it returns at the first
\* attempt that succeeds, and a call that ends with an upstream failure has
\* made exactly 4 attempts and raises the failure of the 4th.
C2_RetrySchedule ==
  \A p \in Procs : LET c == cl[p] IN
    c.method \in LoopMethods =>
      /\ c.attempts <= 4
      /\ c.backoffs = SubSeq(<<1000, 2000, 4000>>, 1,
                             IF c.pc = "done" /\ c.result.kind = "error"
                             THEN c.fails - 1 ELSE c.fails)
      /\ c.pc = "backoff" => c.wakeAt = now + c.backoffs[Len(c.backoffs)]
      /\ (c.pc = "done" /\ c.result.kind = "ok") => c.attempts = c.fails + 1
      /\ (c.pc = "done" /\ c.result.kind = "error") =>
            /\ c.attempts = 4
            /\ c.fails = 4
            /\ c.backoffs = <<1000, 2000, 4000>>
            /\ c.result.error = [status |-> c.lastStatus, req |-> c.reqs]

\* C2 witness: fetchModels failed 4 attempts, none answered 429, and raised.
C2_WitnessExhausted ==
  \E p \in Procs :
    /\ cl[p].method = "fetchModels"
    /\ cl[p].pc = "done"
    /\ cl[p].result.kind = "error"
    /\ cl[p].reqs = 4
    /\ cl[p].n429 = 0

\* C3: a call made while remaining <= 0 and now < resetAt issues no request
\* before resetAt, whatever the method.
C3_NoRequestBeforeReset ==
  \A p \in Procs : LET c == cl[p] IN
    (c.firstReqAt # -1 /\ MustWait(c.rlAtCall, c.calledAt)) =>
        c.firstReqAt >= c.rlAtCall.reset

\* C12: the step that receives a response of the upstream, successful or
\* not (429 included), replaces rateLimit by the values of the response's
\* rate-limit headers, with 50, now + 60 s and 50 for absent headers.
C12_EveryResponseUpdatesRateLimit ==
  [][\A p \in Procs, r \in HttpResponses :
       Respond(p, r, Body) => rateLimit' = RateLimitFromHeaders(r, now)]_vars

\* C13: in every state rateLimit satisfies 0 <= remaining <= total and
\* total > 0, whatever rate-limit headers the responses carried.
C13_RemainingWithinTotal ==
  /\ 0 <= rateLimit.remaining
  /\ rateLimit.remaining <= rateLimit.total
  /\ rateLimit.total > 0

\* model is author/slug: exactly one '/', with text before and after it.
ExactAuthorSlug(model) ==
  LET parts == SplitSlash(model, <<>>, <<>>) IN
  Len(parts) = 2 /\ parts[1] # <<>> /\ parts[2] # <<>>

\* C18: fetchModelEndpoints accepts exactly the model ids of the form
\* author/slug; any other id is rejected at entry with the format error,
\* before any request, rate-limit wait or backoff sleep.
C18_EndpointModelFormat ==
  \A p \in Procs : LET c == cl[p] IN
    c.method = "fetchModelEndpoints" =>
      IF ExactAuthorSlug(c.arg)
      THEN c.pc = "done" => c.result.kind # "invalid"
      ELSE /\ c.pc = "done"
           /\ c.result = FormatError
           /\ c.reqs = 0
           /\ now = c.calledAt

\* C19: chatCompletion and textCompletion are single-shot: a call that has
\* received no 429 issues one POST and never sleeps, and when that request
\* fails the call ends at once, at the time it was made, with that failure.
C19_SingleShotFailsAtOnce ==
  \A p \in Procs : LET c == cl[p] IN
    (c.method \in SingleShot /\ c.n429 = 0) =>
      /\ c.pc \in {"inflight", "done"}
      /\ c.reqs = 1
      /\ c.backoffs = <<>>
      /\ c.lastStatus \in {0, 500} =>
           /\ c.pc = "done"
           /\ c.result = [kind |-> "error", error |-> [status |-> c.lastStatus, req |-> 1]]
           /\ now = c.calledAt

\* chatCompletion was answered 500 and has raised.
C19_WitnessFailed ==
  \E p \in Procs :
    /\ cl[p].method = "chatCompletion" /\ cl[p].pc = "done"
    /\ cl[p].result.kind = "error" /\ cl[p].lastStatus = 500
    /\ cl[p].n429 = 0 /\ cl[p].reqs = 1

\* C35: every call of a client method ends after a bounded number of
\* requests, whatever the upstream answers: at most 2 for chatCompletion and
\* textCompletion, and at most 8 for fetchModels and fetchModelEndpoints
\* (4 attempts, each re-issued at most once after a 429).
C35_RequestsBounded ==
  \A p \in Procs : LET c == cl[p] IN
    /\ c.method \in SingleShot => c.reqs <= 2
    /\ c.method \in LoopMethods => c.reqs <= 8 /\ c.reqs <= 2 * c.attempts

\* C36: with calls in progress side by side on the one rateLimit, no
\* request of fetchModels or fetchModelEndpoints, first attempt or retry, is
\* issued while rateLimit has remaining <= 0 and now < reset.
C36_NoFetchRequestWhileLimited ==
  [][\A p \in Procs :
       (cl'[p].reqs > cl[p].reqs /\ cl'[p].method \in LoopMethods)
         => ~MustWait(rateLimit', now')]_vars

(***************************************************************************)
(* Properties of the model cache and of the catalog tools (CacheSpec).     *)
(***************************************************************************)
\* The snapshot last stored is still to be served: one was stored, the
\* cache was not cleared since, and it is at most 3600 seconds old.
SnapshotServable ==
  /\ lastSet # None
  /\ ~invalidated
  /\ now - lastSet[1].timestamp <= 3600 * 1000

\* C8: getCachedModels returns the stored snapshot exactly when one has been
\* set, clearCache has not been called since, and its age is at most 3600 s
\* (the boundary included); otherwise it returns nothing, and then no model
\* is valid or found and a tool answering from the cache lists nothing else.
C8_SnapshotValidity ==
  /\ getCachedModels(cachedModels, now) = IF SnapshotServable THEN lastSet ELSE None
  /\ \A m \in ToolModels :
       /\ validateModel(cachedModels, now, m) => SnapshotServable /\ m \in IdsOf(lastSet)
       /\ getModelInfo(cachedModels, now, m) # None => SnapshotServable /\ m \in IdsOf(lastSet)
  /\ \A p \in Procs :
       h[p].pc = "done" /\ h[p].tool = "search_models" /\ h[p].listCalls = 0
         => SnapshotServable /\ h[p].result.ids = IdsOf(lastSet)

\* search_models has answered from a snapshot whose age is exactly 3600 s.
C8_WitnessBoundary ==
  \E p \in Procs :
    /\ h[p].pc = "done" /\ h[p].tool = "search_models" /\ h[p].listCalls = 0
    /\ lastSet # None /\ now - lastSet[1].timestamp = cacheExpiry
    /\ h[p].result.ids # {}

\* The answer of a finished tool call says that the model exists.
ReportedFound(t) == t.result.kind \in {"valid", "found", "providers"}

\* The answer of a finished tool call says that the model does not exist.
ReportedMissing(t) == t.result.kind \in {"model_not_found", "not_found"}

\* C9: validate_model, get_model_info and get_model_providers parse the
\* model id and compare its suffix-free baseModel with the catalog ids: an
\* id X:floor or X:nitro is found/valid exactly when X is an id of the valid
\* snapshot.
C9_ParsedBeforeLookup ==
  \A p \in Procs :
    h[p].pc = "done" /\ h[p].tool \in {"validate_model", "get_model_info", "get_model_providers"}
      => LET known == parseModel(h[p].model).baseModel \in h[p].view[1] IN
         /\ ReportedFound(h[p]) => known
         /\ ReportedMissing(h[p]) => ~known

\* C10: a catalog tool that finds the cache absent fetches the catalog,
\* stores it and looks up again; a model id of the fetched catalog is then
\* not reported missing.
C10_AbsentCacheFetches ==
  \A p \in Procs :
    h[p].pc = "done" /\ h[p].tool \in CatalogTools /\ h[p].absentAtStart
      => /\ h[p].listCalls >= 1
         /\ h[p].fetched # None
              /\ (\E k \in 1..Len(h[p].fetched[1]) : h[p].fetched[1][k].id = h[p].model)
              => ~ReportedMissing(h[p])

\* C11: a catalog tool whose re-fetch of the catalog failed answers with a
\* fetch failure, and no tool reports the model as missing or invalid while
\* the cache holds no valid snapshot.
C11_FetchFailureDistinct ==
  \A p \in Procs :
    h[p].pc = "done" /\ h[p].tool \in CatalogTools
      => /\ (h[p].listCalls >= 1 /\ h[p].fetched = None) => h[p].result.kind = "failed"
         /\ ReportedMissing(h[p]) => getCachedModels(cachedModels, now) # None

\* The step leaves rateLimit as it is; when the origin of the clock moves,
\* reset denotes the same instant against the new origin.
RateLimitKept ==
  \/ rateLimit' = rateLimit
  \/ now' = 0 /\ rateLimit' = [rateLimit EXCEPT !.reset = Rebase(@)]

\* The step leaves the stored snapshot as it is, in the same sense.
SnapshotKept ==
  \/ cachedModels' = cachedModels
  \/ now' = 0 /\ cachedModels' = RebaseSnapshot(cachedModels)

\* C14: rateLimit changes only in the step that receives a successful
\* response, and the cached catalog only when a tool stores the listing of
\* a successful fetchModels (or clearCache is called): issuing a request
\* changes neither, and no failed request (transport error, non-2xx answer,
\* 429, exhausted retry schedule) changes either.
C14_FailedRequestsChangeNothing ==
  [][/\ ~RateLimitKept =>
          \E p \in Procs : /\ cl[p].pc = "inflight" /\ cl'[p].pc = "done"
                           /\ cl'[p].result.kind = "ok"
     /\ ~SnapshotKept =>
          \/ cachedModels' = clearCache
          \/ \E p \in Procs : /\ h[p].pc = "fetching" /\ cl[p].pc = "done"
                              /\ cl[p].result.kind = "ok"
                              /\ cachedModels' = setCachedModels(
                                   [data |-> cl[p].result.data, timestamp |-> now])
     /\ \A p \in Procs :
          (cl'[p].reqs > cl[p].reqs \/ cl'[p].fails > cl[p].fails
                                    \/ cl'[p].n429 > cl[p].n429)
            => rateLimit' = rateLimit /\ cachedModels' = cachedModels]_vars

\* search_models has failed to re-fetch an expired catalog after a response
\* had set remaining to 0: snapshot and rate limit are still there.
C14_WitnessFailedRefetch ==
  \E p \in Procs :
    /\ h[p].pc = "done" /\ h[p].tool = "search_models"
    /\ h[p].result.kind = "failed"
    /\ cachedModels # None
    /\ rateLimit.remaining = 0

\* The ids of a listing.
ListedIds(data) == { data[k].id : k \in 1..Len(data) }

\* C30: setCachedModels replaces the snapshot as a whole: after
\* setCachedModels(A) and then setCachedModels(B), getCachedModels,
\* validateModel and getModelInfo see the entries of B and no others; an
\* entry of A that is not in B is not seen (while B is valid and was not
\* cleared; after that nothing is seen).
C30_ReplacementIsTotal ==
  lastSet # None =>
    LET B == lastSet[1].data
        seen == getCachedModels(cachedModels, now)
    IN /\ seen # None => seen[1].data = B
       /\ SnapshotServable => seen # None
       /\ \A m \in ToolModels \cup ListedIds(B) \cup
                   (IF replaced = None THEN {} ELSE ListedIds(replaced[1])) :
            /\ validateModel(cachedModels, now, m) <=> (SnapshotServable /\ m \in ListedIds(B))
            /\ getModelInfo(cachedModels, now, m) # None
                 <=> (SnapshotServable /\ m \in ListedIds(B))
            /\ getModelInfo(cachedModels, now, m) # None
                 => getModelInfo(cachedModels, now, m)[1].id = m

\* A listing with c/d was replaced by a listing without it, which is being
\* served.
C30_WitnessReplaced ==
  /\ replaced # None /\ lastSet # None
  /\ ModelCD \in ListedIds(replaced[1])
  /\ ModelCD \notin ListedIds(lastSet[1].data)
  /\ getCachedModels(cachedModels, now) # None

\* C31: for every model id and every state of the cache, validateModel is
\* true exactly when getModelInfo returns a record, and both report nothing
\* when there is no valid snapshot or the valid snapshot has no entry with
\* that id.
C31_ValidateIffLookup ==
  LET valid == validateCache(cachedModels, now)
      listed(m) == valid /\ \E k \in 1..Len(cachedModels[1].data) :
                                cachedModels[1].data[k].id = m
  IN \A m \in ToolModels :
       /\ validateModel(cachedModels, now, m) <=> (getModelInfo(cachedModels, now, m) # None)
       /\ validateModel(cachedModels, now, m) <=> listed(m)
       /\ getModelInfo(cachedModels, now, m) # None
            => getModelInfo(cachedModels, now, m)[1].id = m

\* A snapshot that lists a/b has expired.
C31_WitnessExpired ==
  /\ cachedModels # None
  /\ ~validateCache(cachedModels, now)
  /\ ModelAB \in ListedIds(cachedModels[1].data)

\* The tools that read the catalog and fall back to the listing endpoint.
ListingTools == {"search_models", "get_model_info", "get_model_providers"}

\* C39: while a valid snapshot exists (set, not invalidated, not older than
\* 3600 s), search_models, get_model_info and get_model_providers issue no
\* catalog listing request, whatever model id is asked for: a call of one of
\* them that issued a listing request had found no valid snapshot.
C39_NoListingWhileSnapshotValid ==
  \A p \in Procs :
    (h[p].tool \in ListingTools /\ h[p].listCalls > 0) => h[p].absentAtStart

(***************************************************************************)
(* Properties of the conversation store (ConvSpec).                        *)
(***************************************************************************)
\* The step appends to conversation id.
Appended(id) ==
  /\ id \in DOMAIN conversations
  /\ id \in DOMAIN conversations'
  /\ Len(conversations'[id].history) > Len(conversations[id].history)

\* C6 as stated: every successful append leaves lastUpdatedAt strictly
\* greater than it was, also when the previous update was made within the
\* same millisecond.
C6_StrictIncrease ==
  [][\A id \in 1..MaxConvs :
       Appended(id) => conversations'[id].lastUpdatedAt > conversations[id].lastUpdatedAt]_vars

\* C6, amended: every successful append sets lastUpdatedAt to the reading of
\* the clock, which is not less than the value before; it is greater only
\* if the clock has advanced since the previous update.  A conversation is
\* never stamped before its creation, and one with messages carries the
\* stamp of its last message.
C6_AppendStampsClock ==
  /\ [][\A id \in 1..MaxConvs :
          Appended(id) =>
            /\ conversations'[id].lastUpdatedAt = now'
            /\ conversations'[id].lastUpdatedAt >= conversations[id].lastUpdatedAt
            /\ (conversations'[id].lastUpdatedAt > conversations[id].lastUpdatedAt
                  <=> now' > conversations[id].lastUpdatedAt)]_vars
  /\ [](\A id \in DOMAIN conversations :
          LET c == conversations[id] IN
          /\ c.lastUpdatedAt >= c.createdAt
          /\ c.history # <<>> => c.lastUpdatedAt = c.history[Len(c.history)].timestamp)

\* A later call has appended to a conversation after the clock moved on.
C6_WitnessLaterAppend ==
  \E id \in DOMAIN conversations :
    /\ conversations[id].lastUpdatedAt > conversations[id].createdAt
    /\ \E p \in Procs : /\ h[p].pc = "done" /\ h[p].result.kind = "ok"
                        /\ h[p].conversationId = id

\* block occurs in seq as a run of consecutive elements.
Occurs(block, seq) ==
  \E k \in 0..(Len(seq) - Len(block)) : SubSeq(seq, k + 1, k + Len(block)) = block

\* C7: appends to one conversation by concurrent tool calls take effect one
\* after the other: the history is the sequence of the appended messages in
\* the order in which the appends were executed, none lost and none twice,
\* and the messages of one call stay together.
C7_AppendsLinearizable ==
  /\ \A id \in DOMAIN conversations : conversations[id].history = appendLog[id]
  /\ \A p \in Procs :
       h[p].pc = "done" /\ h[p].result.kind = "ok"
                        /\ h[p].result.conversationId \in DOMAIN conversations
         => \E t \in 0..now :
              Occurs(Append(Stamped(h[p].messages, t),
                            [role |-> AssistantReply.role,
                             content |-> AssistantReply.content, timestamp |-> t]),
                     conversations[h[p].result.conversationId].history)

\* Two calls were outstanding together for one conversation, and the one
\* started second has appended first.
C7_WitnessOvertaken ==
  \E id \in DOMAIN conversations :
    /\ \A p \in Procs : /\ h[p].pc = "done" /\ h[p].result.kind = "ok"
                        /\ h[p].conversationId = id
    /\ LET hist == conversations[id].history IN
       \E i, j \in 1..Len(hist) :
         i < j /\ hist[i].content = <<"b">> /\ hist[j].content = <<"a">>
               /\ \A k \in (j + 1)..Len(hist) : hist[k].role # "user"

\* C15: when a chat completion succeeds, the conversation named by the
\* returned conversationId has the history H, then the request messages,
\* then the assistant reply, where H is the history the call read when a
\* conversationId was given, and is empty for the conversation the call
\* creates otherwise; the messages sent upstream were fit(H, then the
\* request messages).
C15_HistoryAfterChat ==
  [][\A p \in Procs :
       (h[p].pc = "chatting" /\ h'[p].pc = "done" /\ h'[p].result.kind = "ok") =>
          LET id == h'[p].result.conversationId
              reply == [role |-> AssistantReply.role, content |-> AssistantReply.content,
                        timestamp |-> now']
          IN /\ id \in DOMAIN conversations'
             /\ conversations'[id].history =
                   h[p].readHistory \o Stamped(h[p].messages, now') \o <<reply>>
             /\ h[p].sent = truncateMessagesToFit(
                   ApiMessages(h[p].readHistory) \o h[p].messages, MAX_CONTEXT_TOKENS)
             /\ h[p].conversationId = 0 =>
                   id \notin DOMAIN conversations /\ h[p].readHistory = <<>>]_vars

\* The messages with role 'tool' of a history.
ToolMessages(history) == SelectSeq(history, LAMBDA m : m.role = "tool")

C17_ChatLogsNoToolMessage ==
  [][\A p \in Procs :
       (h'[p].tool = "chat_completion" /\ h'[p] # h[p] /\ h'[p].pc # "idle") =>
          \A id \in DOMAIN conversations' :
            ToolMessages(conversations'[id].history) =
              IF id \in DOMAIN conversations
              THEN ToolMessages(conversations[id].history) ELSE <<>>]_vars

IsPrefix(s, t) == Len(s) <= Len(t) /\ SubSeq(t, 1, Len(s)) = s

\* C20: the history of a conversation only grows at its end: as long as the
\* conversation exists, its history in a state is a prefix of its history in
\* the next; and create(init) followed by the appends of 'Hello' and 'Hi'
\* gives the history init, 'Hello', 'Hi' (of length 2 for an empty init) and
\* leaves the other conversations alone.
C20_HistoryAppendOnly ==
  /\ [][\A id \in DOMAIN conversations :
          id \in DOMAIN conversations' =>
            IsPrefix(conversations[id].history, conversations'[id].history)]_vars
  /\ [](\A init \in {<<>>, <<[role |-> "system", content |-> <<"s">>]>>} :
          LET hello == [role |-> "user", content |-> <<"Hello">>]
              hi == [role |-> "assistant", content |-> <<"Hi">>]
              store == addMessageToConversation(
                         addMessageToConversation(
                           createConversation(conversations, nextId, init, now),
                           nextId, hello, now),
                         nextId, hi, now)
          IN /\ store[nextId].history = init \o <<hello, hi>>
             /\ Len(store[nextId].history) = Len(init) + 2
             /\ \A id \in DOMAIN conversations : store[id] = conversations[id])

\* A conversation holds the messages of two chat completions and the log of
\* a tool call between them.
C20_WitnessGrown ==
  \E id \in DOMAIN conversations :
    LET hist == conversations[id].history IN
    /\ Len(hist) >= 6
    /\ hist[1].role = "user" /\ hist[2].role = "assistant"
    /\ hist[3].role = "tool" /\ hist[4].role = "tool"
    /\ hist[Len(hist)].role = "assistant"
(***************************************************************************)
(* Claims about the conversation store used directly (StoreSpec).          *)
(***************************************************************************)
\* The step is a call of the named operation of the store (create, append
\* or delete) on conversation id.
StoreStep(name, id) ==
  /\ h'["p1"].n = h["p1"].n + 1
  /\ h'["p1"].tool = name
  /\ h'["p1"].conversationId = id

\* C21: an append to one conversation id changes only that conversation:
\* every other conversation keeps its history, createdAt and lastUpdatedAt,
\* also when it was created from the same initialMessages.
C21_AppendsIndependent ==
  [][\A id \in 1..MaxConvs :
       StoreStep("append", id) =>
         \A k \in DOMAIN conversations \ {id} :
            k \in DOMAIN conversations' /\ conversations'[k] = conversations[k]]_vars

\* C22: an append with an id that is not in the store returns absent and
\* changes nothing: the same conversations, with the same histories and
\* timestamps, before and after.
C22_UnknownAppendIsNoOp ==
  [][\A id \in 1..MaxConvs :
       (StoreStep("append", id) /\ id \notin DOMAIN conversations) =>
         /\ h'["p1"].result = None
         /\ conversations' = conversations
         /\ order' = order
         /\ callerArray' = callerArray]_vars

\* An append to a deleted conversation has returned absent while another
\* conversation is in the store.
C22_WitnessUnknownAppend ==
  /\ h["p1"].tool = "append"
  /\ h["p1"].conversationId \notin DOMAIN conversations
  /\ h["p1"].conversationId < nextId
  /\ h["p1"].result = None
  /\ DOMAIN conversations # {}

\* C23: delete(id) returns true exactly when the conversation existed; after
\* it get(id) is absent, list() has no entry for id, a second delete(id)
\* returns false, and every other conversation is as before.
C23_DeleteRemovesOnlyThat ==
  [][\A id \in 1..MaxConvs :
       StoreStep("delete", id) =>
         /\ h'["p1"].result = (id \in DOMAIN conversations)
         /\ getConversation(conversations', id) = None
         /\ \A k \in 1..Len(order') :
               listConversations(conversations', order')[k].id # id
         /\ ~deleteReturns(conversations', id)
         /\ DOMAIN conversations' = DOMAIN conversations \ {id}
         /\ \A k \in DOMAIN conversations' : conversations'[k] = conversations[k]
         /\ order' = Remove(order, id)]_vars

\* A delete has returned true and left another conversation, with messages,
\* in the store.
C23_WitnessDeleted ==
  /\ h["p1"].tool = "delete"
  /\ h["p1"].result = TRUE
  /\ \E k \in DOMAIN conversations : Len(conversations[k].history) >= 2

\* C24: create returns a conversation with an id no conversation had before
\* (deleted ones included), with the given initial messages as its history
\* (none when none are given) and createdAt = lastUpdatedAt, and get(id)
\* returns that conversation right after.
C24_CreateFresh ==
  [][\A id \in 1..MaxConvs :
       StoreStep("create", id) =>
         LET c == h'["p1"].result IN
         /\ c.id = id
         /\ id \notin DOMAIN appendLog
         /\ id \notin DOMAIN conversations
         /\ c.history = (IF id \in callerArray'.ids THEN callerArray.content ELSE <<>>)
         /\ c.createdAt = c.lastUpdatedAt
         /\ c.createdAt = now
         /\ getConversation(conversations', id) = Some(c)]_vars

\* A conversation was created from initial messages, after another one was
\* created and deleted.
C24_WitnessCreated ==
  /\ h["p1"].tool = "create"
  /\ h["p1"].conversationId \in callerArray.ids
  /\ h["p1"].result.history # <<>>
  /\ \E k \in DOMAIN appendLog : k \notin DOMAIN conversations

\* C25: in every state of the store every conversation has
\* lastUpdatedAt >= createdAt.
C25_UpdatedNotBeforeCreated ==
  \A id \in DOMAIN conversations :
     conversations[id].lastUpdatedAt >= conversations[id].createdAt

\* A conversation created after the clock had advanced was appended to
\* later still.
C25_WitnessUpdatedLater ==
  \E id \in DOMAIN conversations :
     /\ conversations[id].createdAt > 0
     /\ conversations[id].lastUpdatedAt > conversations[id].createdAt

\* C26: list() has one summary for each conversation in the store and none
\* for a deleted one, in the order the conversations were created, with
\* messageCount the length of the history at the time of the call.
C26_ListIsTheStore ==
  h["p1"].tool = "list" =>
    LET r == h["p1"].result IN
    /\ Len(r) = Cardinality(DOMAIN conversations)
    /\ { r[k].id : k \in 1..Len(r) } = DOMAIN conversations
    /\ \A i, j \in 1..Len(r) : i < j => r[i].id < r[j].id
    /\ \A k \in 1..Len(r) :
          /\ r[k].messageCount = Len(conversations[r[k].id].history)
          /\ r[k].createdAt = conversations[r[k].id].createdAt
          /\ r[k].lastUpdatedAt = conversations[r[k].id].lastUpdatedAt

\* A list of two conversations with different message counts.
C26_WitnessListed ==
  /\ h["p1"].tool = "list"
  /\ Len(h["p1"].result) = 2
  /\ h["p1"].result[1].messageCount > h["p1"].result[2].messageCount

(***************************************************************************)
(* Claims about chat and text completion on the conversation store         *)
(* (TextSpec).                                                             *)
(***************************************************************************)
Completions == {"chat_completion", "text_completion"}

\* The step is the arrival of a completion request of caller p.
CompletionCalled(p) ==
  /\ h[p].pc = "idle"
  /\ h'[p].n = h[p].n + 1
  /\ h'[p].tool \in Completions

\* The arguments of the request are complete: a model, and a message or a
\* prompt.
WellFormed(t) ==
  /\ t.model # <<>>
  /\ t.tool = "chat_completion" => t.messages # <<>>
  /\ t.tool = "text_completion" => t.prompt # <<>>

\* C27: a chat or text completion that names a conversation id that is not
\* in the store fails at once with a not-found result: no upstream request
\* is made, no conversation is created and no message is appended.
C27_UnknownConversationFailsClean ==
  [][\A p \in Procs :
       ( /\ CompletionCalled(p)
         /\ WellFormed(h'[p])
         /\ h'[p].conversationId # 0
         /\ h'[p].conversationId \notin DOMAIN conversations ) =>
           /\ h'[p].pc = "done"
           /\ h'[p].result.kind = "conversation_not_found"
           /\ cl' = cl
           /\ DOMAIN conversations' = DOMAIN conversations
           /\ nextId' = nextId
           /\ \A id \in DOMAIN conversations :
                 conversations'[id].history = conversations[id].history]_vars

\* C28: a completion with malformed input (chat: no messages, or no model;
\* text: no model, or no prompt) is rejected before any I/O: it returns an
\* error result, makes no upstream request and leaves the conversation
\* store as it was.
C28_MalformedRejectedBeforeIO ==
  [][\A p \in Procs :
       (CompletionCalled(p) /\ ~WellFormed(h'[p])) =>
           /\ h'[p].pc = "done"
           /\ h'[p].result.kind \in {"no_model", "empty_messages", "no_prompt",
                                     "conversation_not_found"}
           /\ cl' = cl
           /\ conversations' = conversations
           /\ order' = order
           /\ nextId' = nextId]_vars

\* C29: a text completion with a conversation whose last message is of the
\* assistant sends that message's content followed by the new prompt, and
\* otherwise the new prompt alone; on success the conversation (the given
\* one, or a new one) has gained a user message with the new prompt alone
\* and then an assistant message with the completion text.
C29_TextContinuation ==
  [][\A p \in Procs :
       /\ (CompletionCalled(p) /\ h'[p].tool = "text_completion"
             /\ h'[p].pc = "completing") =>
            LET t == h'[p]
                H == t.readHistory
            IN /\ t.conversationId # 0 => H = conversations'[t.conversationId].history
               /\ t.sent = IF H # <<>> /\ H[Len(H)].role = "assistant"
                           THEN H[Len(H)].content \o t.prompt
                           ELSE t.prompt
       /\ (h[p].pc = "completing" /\ h'[p].pc = "done" /\ h'[p].result.kind = "ok") =>
            LET id == h'[p].result.conversationId
                added == << [role |-> "user", content |-> h[p].prompt,
                             timestamp |-> now'],
                            [role |-> "assistant", content |-> TextReply.text,
                             timestamp |-> now'] >>
            IN /\ id \in DOMAIN conversations'
               /\ conversations'[id].history =
                    (IF id \in DOMAIN conversations
                     THEN conversations[id].history ELSE <<>>) \o added
               /\ h[p].conversationId = 0 => id \notin DOMAIN conversations]_vars

\* The step is the return of a completion of caller p after its upstream
\* call.
CompletionReturned(p) ==
  /\ h[p].pc \in {"chatting", "completing"}
  /\ h'[p].pc = "done"

\* C37: when a chat or text completion returns success with conversationId
\* c, conversation c is in the store at that moment and its history ends
\* with the assistant reply of that call, whatever other tool calls ran
\* meanwhile, a delete of c during the upstream request included.
C37_SuccessMeansPersisted ==
  [][\A p \in Procs :
       (CompletionReturned(p) /\ h'[p].result.kind = "ok") =>
          LET c == h'[p].result.conversationId
              text == IF h[p].tool = "chat_completion"
                      THEN AssistantReply.content ELSE TextReply.text
          IN /\ c \in DOMAIN conversations'
             /\ conversations'[c].history # <<>>
             /\ LET last == conversations'[c].history[Len(conversations'[c].history)]
                IN last.role = "assistant" /\ last.content = text]_vars

\* C38: when the upstream call of a chat or text completion fails, the
\* handler returns an error result and has not changed the conversation
\* store: it writes nothing before the upstream call (the store then changes
\* by the tool layer's record of the call only), and after the failure no
\* conversation is created and no message is appended.
C38_UpstreamFailureLeavesStore ==
  [][\A p \in Procs :
       /\ CompletionCalled(p) =>
            /\ conversations' = LogTool(conversations, h'[p].topId, "Tool call",
                                        h'[p].tool, now)
            /\ order' = order
            /\ nextId' = nextId
       /\ (CompletionReturned(p) /\ cl[p].result.kind # "ok") =>
            /\ h'[p].result.kind = "api_error"
            /\ conversations' = conversations
            /\ order' = order
            /\ nextId' = nextId]_vars

\* A chat completion on a conversation with messages has failed upstream.
C38_WitnessFailedOnConversation ==
  \E p \in Procs :
    /\ h[p].pc = "done" /\ h[p].tool = "chat_completion"
    /\ h[p].result.kind = "api_error"
    /\ h[p].conversationId \in DOMAIN conversations
    /\ conversations[h[p].conversationId].history # <<>>

\* ---------------------------------------------------------------------------
\* Claims about two completions on one conversation.

\* The messages the completion of caller p persists when it returns with
\* success: the request messages, then the reply.
PersistedBlock(p) ==
  IF h[p].tool = "chat_completion"
  THEN Append(Stamped(h[p].messages, now),
              [role |-> AssistantReply.role, content |-> AssistantReply.content,
               timestamp |-> now])
  ELSE << [role |-> "user", content |-> h[p].prompt, timestamp |-> now],
          [role |-> "assistant", content |-> TextReply.text, timestamp |-> now] >>

\* C40: the messages one chat or text completion persists (the request
\* messages, then the reply) stand at consecutive positions of the history,
\* in that order, whatever other calls are in flight on the same conversation:
\* every step keeps the history it found as a prefix, and what it adds behind
\* it is nothing, one record of the tool layer, or the whole block of the one
\* completion that returns in this step.
C40_BlocksStayTogether ==
  [][\A id \in DOMAIN conversations' :
       LET old == IF id \in DOMAIN conversations
                  THEN conversations[id].history ELSE <<>>
           new == conversations'[id].history
           added == SubSeq(new, Len(old) + 1, Len(new))
       IN /\ Len(new) >= Len(old)
          /\ SubSeq(new, 1, Len(old)) = old
          /\ \/ added = <<>>
             \/ Len(added) = 1 /\ added[1].role = "tool"
             \/ \E p \in Procs :
                  /\ CompletionReturned(p)
                  /\ h'[p].result.kind = "ok"
                  /\ h'[p].result.conversationId = id
                  /\ added = PersistedBlock(p)]_vars

\* A chat completion and a text completion that were in flight together on
\* one conversation (both read the same history) have both persisted their
\* messages, the one that started later first.
C40_WitnessOverlapped ==
  /\ h["p1"].pc = "done" /\ h["p2"].pc = "done"
  /\ h["p1"].result.kind = "ok" /\ h["p2"].result.kind = "ok"
  /\ h["p1"].conversationId # 0
  /\ h["p1"].conversationId = h["p2"].conversationId
  /\ h["p1"].conversationId \in DOMAIN conversations
  /\ LET hist == conversations[h["p1"].conversationId].history
         n == Len(hist)
     IN /\ n >= 4
        /\ hist[n].role = "assistant" /\ hist[n].content = AssistantReply.content
        /\ hist[n - 1].content = <<"a">>
        /\ hist[n - 2].role = "assistant" /\ hist[n - 3].content = <<"p">>

====
